---- MODULE Spec2Model ----
(***************************************************************************)
(* A model of the NSE stock predictor backend: the regime-aware signal     *)
(* decision (service.py, feature_engine.py), the /predict endpoint with    *)
(* its in-memory cache (main.py, service.py), the prediction log           *)
(* (tracker.py), the batch runners (screener.py, backtest_parallel.py,     *)
(* backtest.py), the three bar-by-bar simulators (backtest.py,             *)
(* backtest_parallel.py, backtest_granular.py) and the outlier filter      *)
(* (feature_engine.clean_data_robust).                                     *)
(*                                                                         *)
(* Python strings that the code searches or trims are sequences of         *)
(* one-character strings; money that the code divides is an exact          *)
(* rational; NaN is the value NaN below, on which every comparison is      *)
(* false.                                                                  *)
(***************************************************************************)
EXTENDS Integers, Sequences, FiniteSets, TLC

VARIABLES
    \* --- signal decision (service.predict_stock_price, lines 280-335) ---
    dpc,                \* "start" | "done"
    gmm,                \* what the mixture model gave: [ok, means, last]
    last_row,           \* the latest feature row
    decision,           \* [market_phase, action, score_desc]
    \* --- /predict endpoint, cache and prediction log ---
    PREDICTION_CACHE,   \* symbol -> [time, data]
    history,            \* data/prediction_history.json: symbol -> entries
    now,                \* the wall clock, in hours
    resp,               \* the last HTTP response: [status, body]
    request,            \* the symbol of the last /predict request, as sent
    invoked,            \* the calls the last request made: [stage, failed]
    allocated,          \* number of result objects created so far
    \* --- screener.py: the thread pool over NIFTY_50 ---
    wpc,                \* worker (symbol) -> where its scan_stock stands
    wlocal,             \* worker -> the `history` dict its tracker call holds
    results,            \* the rows the main thread has collected
    \* --- the batch runners (screener, backtest_parallel, backtest) ---
    runner,             \* which script runs
    data,               \* symbol -> what the data provider has for it
    task,               \* symbol -> "pending" or how its task ended
    consumed,           \* the symbols whose outcome the main loop has seen
    batch_results,      \* the symbols whose result the main loop has kept
    bpc,                \* the main loop: "running" | "aborted" | "done"
    \* --- the simulators ---
    sim,                \* "Backtester" | "backtest_stock" | a run_simulation strategy
    spc,                \* "loop" | "done" | "raised"
    df,                 \* the Close column of the bars replayed so far
    executed,           \* what the last bar executed, in order
    in_position,
    balance,            \* Backtester: self.balance
    position,           \* Backtester: self.position (shares)
    trades,             \* Backtester: self.trades
    equity_curve,       \* Backtester: self.equity_curve
    stop_loss,          \* Backtester.run: stop_loss
    take_profit,        \* Backtester.run: take_profit
    cash,               \* backtest_stock / run_simulation: cash
    shares,             \* backtest_stock / run_simulation: shares
    entry_price,        \* backtest_stock / run_simulation: entry_price
    ntrades,            \* backtest_stock / run_simulation: trades (a count)
    wins,               \* backtest_stock / run_simulation: wins
    final_val,          \* backtest_stock / run_simulation: final_val
    \* --- the outlier filter (feature_engine.clean_data_robust) ---
    fetched,            \* the Close column as fetched
    spike_at,           \* the bar whose close was spiked, 0 when none was
    cleaned,            \* the Close column the latest pass returned
    npasses,            \* how many times the filter has run
    \* --- feature generation (feature_engine.add_advanced_features) ---
    bars,               \* a Close column
    later,              \* a Close column that agrees with bars up to bar upto
    upto,
    fpc,                \* "start" | "done"
    features,           \* the derived fields of bars, row by row
    features_later,     \* the derived fields of later, row by row
    hurst,              \* the last direct calculate_hurst call: [length, value]
    \* --- tracker.verify_accuracy ---
    stats,              \* the last operation, if a verify_accuracy call: [symbol, returned]
    \* --- concurrent predict_stock_price calls (one thread each) ---
    tpc,                \* thread -> "check" | "pipeline" | "returned" | "raised"
    tsym,               \* thread -> the symbol it was called with
    entry,              \* thread -> the object its `entry` names, <<>> when none
    built,              \* thread -> the {'time', 'data'} dict it built, <<>> when none
    returned            \* thread -> the object it returned, <<>> when none

decisionVars == <<dpc, gmm, last_row, decision>>
serviceVars  == <<PREDICTION_CACHE, request, resp, invoked, allocated>>
trackerVars  == <<history, now, stats>>
screenerVars == <<wpc, wlocal, results>>
batchVars == <<runner, data, task, consumed, batch_results, bpc>>
classVars == <<balance, position, trades, equity_curve, stop_loss, take_profit>>
funcVars == <<cash, shares, entry_price, ntrades, wins, final_val>>
simVars == <<sim, spc, df, executed, in_position, classVars, funcVars>>
cleanVars == <<fetched, spike_at, cleaned, npasses>>
featureVars == <<bars, later, upto, fpc, features, features_later, hurst>>
threadVars == <<tpc, tsym, entry, built, returned>>
vars == <<decisionVars, serviceVars, trackerVars, screenerVars, batchVars, simVars,
          cleanVars, featureVars, threadVars>>
notDecision == <<serviceVars, trackerVars, screenerVars, batchVars, simVars, cleanVars,
    featureVars, threadVars>>
notService == <<decisionVars, screenerVars, batchVars, simVars, cleanVars,
    featureVars, threadVars>>
notScreener == <<decisionVars, batchVars, simVars, cleanVars,
    featureVars, threadVars>>
notBatch == <<decisionVars, serviceVars, trackerVars, screenerVars, simVars, cleanVars,
    featureVars, threadVars>>
notSim == <<decisionVars, serviceVars, trackerVars, screenerVars, batchVars, cleanVars,
    featureVars, threadVars>>
notClean == <<decisionVars, serviceVars, trackerVars, screenerVars, batchVars, simVars,
    featureVars, threadVars>>
notFeature == <<decisionVars, serviceVars, trackerVars, screenerVars, batchVars, simVars,
    cleanVars, threadVars>>
notThread == <<decisionVars, screenerVars, batchVars, simVars, cleanVars, featureVars>>

(***************************************************************************)
(* Bounds of the model.                                                    *)
(***************************************************************************)
StartHour == 22         \* the hour at which the server starts
MaxTime == 26           \* the clock stops at this hour
MaxObjects == 2         \* result objects created in one run

(***************************************************************************)
(* Python values.                                                          *)
(***************************************************************************)
NaN == 0 - 1            \* float('nan'): every ordering comparison is False
Gt(a, b) == a # NaN /\ b # NaN /\ a > b
Lt(a, b) == a # NaN /\ b # NaN /\ a < b

\* needle in hay (str.__contains__)
Contains(needle, hay) ==
    \E i \in 1..(Len(hay) - Len(needle) + 1) :
        SubSeq(hay, i, i + Len(needle) - 1) = needle

StrStrongBear == <<"S", "t", "r", "o", "n", "g", " ", "B", "e", "a", "r">>
StrWeakBear   == <<"W", "e", "a", "k", " ", "B", "e", "a", "r">>
StrChoppy     == <<"C", "h", "o", "p", "p", "y">>
LabelBearish  == <<"B", "e", "a", "r", "i", "s", "h", "/", "V", "o", "l", "a", "t", "i", "l", "e">>
LabelNeutral  == <<"N", "e", "u", "t", "r", "a", "l", "/", "C", "h", "o", "p", "p", "y">>
LabelBullish  == <<"B", "u", "l", "l", "i", "s", "h", "/", "T", "r", "e", "n", "d", "i", "n", "g">>
LabelUnknown  == <<"U", "n", "k", "n", "o", "w", "n">>

(***************************************************************************)
(* feature_engine.detect_regimes_gmm: the clusters that hold at least one  *)
(* row are sorted by their mean Return_1d (ascending; ties keep the        *)
(* cluster-id order of the groupby) and the i-th of them gets labels[i].   *)
(***************************************************************************)
labels == <<LabelBearish, LabelNeutral, LabelBullish>>

\* the position under a sort that ranks clusters by id and ignores the means
SortedPositionById(means, c) == Cardinality({k \in DOMAIN means : k < c})
\* position (0-based) of cluster c in sorted_clusters.index
SortedPosition(means, c) ==
    Cardinality({k \in DOMAIN means :
                    means[k] < means[c] \/ (means[k] = means[c] /\ k < c)})

label_map(means) == [c \in DOMAIN means |-> labels[SortedPosition(means, c) + 1]]

\* a failed detection labelled as the cautious regime
current_regime_label_cautious(g) ==
    IF g.ok THEN label_map(g.means)[g.last] ELSE LabelNeutral
\* service.py 166-171: the label of the last row, "Unknown" when GMM raised
current_regime_label(g) ==
    IF g.ok THEN label_map(g.means)[g.last] ELSE LabelUnknown

(***************************************************************************)
(* service.predict_stock_price, STRATEGY V5 (lines 280-335).               *)
(***************************************************************************)
is_uptrend(row)  == Gt(row.Close, row.SMA_200)
is_dip(row)      == Lt(row.RSI, 45)
is_deep_dip(row) == Lt(row.RSI, 35)
is_rip(row)      == Gt(row.RSI, 70)
\* curr_vol < (2.5 * avg_vol) if avg_vol > 0 else True
\* the volume filter failing closed when there is no positive average
is_safe_vol_strict(row) ==
    IF Gt(row.Volume_SMA_20, 0)
    THEN Lt(10 * row.Volume, 25 * row.Volume_SMA_20)
    ELSE FALSE

is_safe_vol(row) ==
    IF Gt(row.Volume_SMA_20, 0)
    THEN Lt(10 * row.Volume, 25 * row.Volume_SMA_20)
    ELSE TRUE

\* the guardrails with the overbought test ahead of the dip test in bull mode
RegimeGuardrailsRipFirst(label, row) ==
    IF Contains(StrStrongBear, label)
    THEN [action |-> "Avoid", score_desc |-> "Bear Regime (No Buys)"]
    ELSE IF Contains(StrWeakBear, label) \/ Contains(StrChoppy, label)
    THEN IF is_deep_dip(row) /\ is_safe_vol(row)
         THEN [action |-> "Buy", score_desc |-> "Deep Value in Chop"]
         ELSE [action |-> "Wait", score_desc |-> "Choppy Market (Wait for 35 RSI)"]
    ELSE IF is_rip(row)
    THEN [action |-> "Sell", score_desc |-> "Overbought"]
    ELSE IF is_uptrend(row)
    THEN IF is_dip(row) /\ is_safe_vol(row)
         THEN [action |-> "Strong Buy", score_desc |-> "Bull Trend + Dip"]
         ELSE [action |-> "Hold", score_desc |-> "Uptrend (Wait for Dip)"]
    ELSE [action |-> "Avoid", score_desc |-> "Downtrend"]

\* the guardrails with caution mode buying any dip and ignoring the volume
RegimeGuardrailsAnyDip(label, row) ==
    IF Contains(StrStrongBear, label)
    THEN [action |-> "Avoid", score_desc |-> "Bear Regime (No Buys)"]
    ELSE IF Contains(StrWeakBear, label) \/ Contains(StrChoppy, label)
    THEN IF is_dip(row)
         THEN [action |-> "Buy", score_desc |-> "Deep Value in Chop"]
         ELSE [action |-> "Wait", score_desc |-> "Choppy Market (Wait for 35 RSI)"]
    ELSE IF is_uptrend(row) /\ is_dip(row)
    THEN IF is_safe_vol(row)
         THEN [action |-> "Strong Buy", score_desc |-> "Bull Trend + Dip"]
         ELSE [action |-> "Wait", score_desc |-> "Dip but High Vol"]
    ELSE IF is_rip(row)
    THEN [action |-> "Sell", score_desc |-> "Overbought"]
    ELSE IF is_uptrend(row)
    THEN [action |-> "Hold", score_desc |-> "Uptrend (Wait for Dip)"]
    ELSE [action |-> "Avoid", score_desc |-> "Downtrend"]

\* the guardrails with a Hold that also looks at the raw RSI
RegimeGuardrailsRawRsi(label, row) ==
    IF Contains(StrStrongBear, label)
    THEN [action |-> "Avoid", score_desc |-> "Bear Regime (No Buys)"]
    ELSE IF Contains(StrWeakBear, label) \/ Contains(StrChoppy, label)
    THEN IF is_deep_dip(row) /\ is_safe_vol(row)
         THEN [action |-> "Buy", score_desc |-> "Deep Value in Chop"]
         ELSE [action |-> "Wait", score_desc |-> "Choppy Market (Wait for 35 RSI)"]
    ELSE IF is_uptrend(row) /\ is_dip(row)
    THEN IF is_safe_vol(row)
         THEN [action |-> "Strong Buy", score_desc |-> "Bull Trend + Dip"]
         ELSE [action |-> "Wait", score_desc |-> "Dip but High Vol"]
    ELSE IF is_rip(row)
    THEN [action |-> "Sell", score_desc |-> "Overbought"]
    ELSE IF is_uptrend(row)
    THEN IF Lt(row.RSI, 60)
         THEN [action |-> "Wait", score_desc |-> "Uptrend (Wait for Dip)"]
         ELSE [action |-> "Hold", score_desc |-> "Uptrend (Wait for Dip)"]
    ELSE [action |-> "Avoid", score_desc |-> "Downtrend"]

\* service.py 301-333: the regime guardrails
RegimeGuardrails(label, row) ==
    IF Contains(StrStrongBear, label)
    THEN [action |-> "Avoid", score_desc |-> "Bear Regime (No Buys)"]
    ELSE IF Contains(StrWeakBear, label) \/ Contains(StrChoppy, label)
    THEN IF is_deep_dip(row) /\ is_safe_vol(row)
         THEN [action |-> "Buy", score_desc |-> "Deep Value in Chop"]
         ELSE [action |-> "Wait", score_desc |-> "Choppy Market (Wait for 35 RSI)"]
    ELSE IF is_uptrend(row) /\ is_dip(row)
    THEN IF is_safe_vol(row)
         THEN [action |-> "Strong Buy", score_desc |-> "Bull Trend + Dip"]
         ELSE [action |-> "Wait", score_desc |-> "Dip but High Vol"]
    ELSE IF is_rip(row)
    THEN [action |-> "Sell", score_desc |-> "Overbought"]
    ELSE IF is_uptrend(row)
    THEN [action |-> "Hold", score_desc |-> "Uptrend (Wait for Dip)"]
    ELSE [action |-> "Avoid", score_desc |-> "Downtrend"]

\* the part of the result that the decision fixes
Decide(g, row) ==
    LET label == current_regime_label(g)
        d == RegimeGuardrails(label, row)
    IN  [market_phase |-> label, action |-> d.action, score_desc |-> d.score_desc]

NoDecision == [market_phase |-> <<>>, action |-> "", score_desc |-> ""]

(***************************************************************************)
(* Inputs of the decision.                                                 *)
(***************************************************************************)
Clusters    == 0..2                     \* n_components = 3
MeanReturns == {0 - 1, 0, 1}
GmmFailed   == [ok |-> FALSE, means |-> <<>>, last |-> 0]
GmmResults  ==
    {GmmFailed} \cup
    UNION {{[ok |-> TRUE, means |-> m, last |-> c] : m \in [P -> MeanReturns], c \in P} :
              P \in (SUBSET Clusters) \ {{}}}
Rows ==
    [Close : {90, 110}, SMA_200 : {100, NaN}, RSI : {30, 35, 40, 45, 60, 70, 75},
     Volume : {100, 250, 300}, Volume_SMA_20 : {NaN, 0, 100}]
NoRow == [Close |-> 0, SMA_200 |-> 0, RSI |-> 0, Volume |-> 0, Volume_SMA_20 |-> 0]

(***************************************************************************)
(* tracker.py: the prediction log, one JSON file keyed by symbol.          *)
(***************************************************************************)
None == 0 - 2           \* Python None / JSON null

\* datetime.now().strftime("%Y-%m-%d"), as a day number
today(t) == t \div 24

\* a load that finds nothing, whatever the file holds
load_history_nothing(file) == <<>>
\* tracker.load_history, on the file's content
load_history(file) == file

\* log_prediction without the same-day check (always appends)
log_prediction_always(file, symbol, prediction_price, t) ==
    LET h == IF symbol \in DOMAIN file
             THEN file
             ELSE [k \in DOMAIN file \cup {symbol} |-> IF k = symbol THEN <<>> ELSE file[k]]
    IN  [h EXCEPT ![symbol] =
            Append(@, [date |-> today(t), predicted |-> prediction_price,
                       actual |-> None, verified |-> FALSE])]

\* tracker.log_prediction: the file's content after the call
log_prediction(file, symbol, prediction_price, t) ==
    LET loaded == load_history(file)
        h == IF symbol \in DOMAIN loaded
             THEN loaded
             ELSE [k \in DOMAIN loaded \cup {symbol} |->
                      IF k = symbol THEN <<>> ELSE loaded[k]]
        existing == {i \in 1..Len(h[symbol]) : h[symbol][i].date = today(t)}
    IN  IF existing = {}
        THEN [h EXCEPT ![symbol] =
                 Append(@, [date |-> today(t), predicted |-> prediction_price,
                            actual |-> None, verified |-> FALSE])]
        ELSE file

\* tracker.py 76-101: one unverified entry against the downloaded frame df
\* (trading day -> close): the first close after the entry's date, if any
VerifyEntry(e, frame) ==
    LET future_data == {d \in DOMAIN frame : d > e.date}
    IN  IF e.verified \/ future_data = {}
        THEN e
        ELSE LET target == CHOOSE d \in future_data : \A x \in future_data : d <= x
             IN  [date |-> e.date, predicted |-> e.predicted, actual |-> frame[target],
                  verified |-> TRUE, target_date |-> target]

\* tracker.verify_accuracy, lines 56-105: the dict after the verification
\* loop, and whether it is saved
verify_entries(loaded, symbol, frame) ==
    IF symbol \notin DOMAIN loaded
    THEN [history |-> loaded, updated |-> FALSE]
    ELSE LET h == [loaded EXCEPT ![symbol] =
                      [i \in 1..Len(@) |-> VerifyEntry(@[i], frame)]]
         IN  [history |-> h, updated |-> h # loaded]

\* exact arithmetic on rationals [n, d], in lowest terms
RECURSIVE GCD(_, _)
GCD(a, b) == IF b = 0 THEN a ELSE GCD(b, a % b)
Rat(n, d) == LET g == GCD(n, d) IN [n |-> n \div g, d |-> d \div g]
Whole(k) == [n |-> k, d |-> 1]
RTimes(r, k) == Rat(r.n * k, r.d)
ROver(r, k) == Rat(r.n, r.d * k)
RLe(a, b) == a.n * b.d <= b.n * a.d
RPlus(a, b) == Rat(a.n * b.d + b.n * a.d, a.d * b.d)
RECURSIVE RSum(_)
RSum(rs) == IF rs = <<>> THEN [n |-> 0, d |-> 1] ELSE RPlus(Head(rs), RSum(Tail(rs)))
Abs(x) == IF x < 0 THEN 0 - x ELSE x

\* round half to even of the non-negative rational r, in units of 1/scale
RoundHalfEven(r, scale) ==
    LET q == (r.n * scale) \div r.d
        rem == (r.n * scale) % r.d
    IN  IF 2 * rem > r.d THEN q + 1
        ELSE IF 2 * rem = r.d THEN q + (q % 2)
        ELSE q

\* round(mae, 2)
round2(r) == Rat(RoundHalfEven(r, 100), 100)

\* decimal digits of a natural number
DigitChars == <<"0", "1", "2", "3", "4", "5", "6", "7", "8", "9">>
RECURSIVE Decimal(_)
Decimal(k) ==
    IF k < 10 THEN <<DigitChars[k + 1]>>
    ELSE Append(Decimal(k \div 10), DigitChars[(k % 10) + 1])
\* f"{accuracy:.1f}%"
format_1f_percent(r) ==
    LET tenths == RoundHalfEven(r, 10)
    IN  Decimal(tenths \div 10) \o <<".", DigitChars[(tenths % 10) + 1], "%">>

StrPending == <<"P", "e", "n", "d", "i", "n", "g">>
StrNA      == <<"N", "/", "A">>
NoStats == <<>>

\* tracker.py 110-113: pc_err of one verified entry
pc_err(e) == Rat(Abs(e.predicted - e.actual) * 100, e.actual)

\* accuracy without the floor at 0 (a negative value is formatted by its size)
accuracy_unfloored(mae) ==
    IF RLe(mae, [n |-> 100, d |-> 1]) THEN RPlus([n |-> 100, d |-> 1], [n |-> 0 - mae.n, d |-> mae.d])
    ELSE RPlus(mae, [n |-> 0 - 100, d |-> 1])
\* tracker.py 116: accuracy = max(0, 100 - mae)
accuracy_of(mae) ==
    IF RLe(mae, [n |-> 100, d |-> 1]) THEN RPlus([n |-> 100, d |-> 1], [n |-> 0 - mae.n, d |-> mae.d])
    ELSE [n |-> 0, d |-> 1]

\* tracker.verify_accuracy, lines 52-55 and 107-127: the dict it returns, on
\* the entries as they are after the verification loop
accuracy_stats(h, symbol) ==
    IF symbol \notin DOMAIN h
    THEN [accuracy |-> StrNA, mae_percent |-> [n |-> 0, d |-> 1], samples |-> 0]
    ELSE LET entries == h[symbol]
             verified_entries ==
                 SelectSeq(entries, LAMBDA e : e.verified /\ e.actual # None)
         IN  IF verified_entries = <<>>
             THEN [accuracy |-> StrPending, mae_percent |-> [n |-> 0, d |-> 1], samples |-> 0]
             ELSE LET errors == [i \in 1..Len(verified_entries) |-> pc_err(verified_entries[i])]
                      mae == ROver(RSum(errors), Len(errors))
                  IN  [accuracy |-> format_1f_percent(accuracy_of(mae)),
                       mae_percent |-> round2(mae),
                       samples |-> Len(verified_entries)]

(***************************************************************************)
(* main.predict_endpoint and service.predict_stock_price.                  *)
(***************************************************************************)
CACHE_DURATION_HOURS == 4

Whitespace == {" "}
UpperChar(c) == CASE c = "a" -> "A" [] c = "b" -> "B" [] OTHER -> c
upper(s) == [i \in 1..Len(s) |-> UpperChar(s[i])]
RECURSIVE lstrip(_)
lstrip(s) == IF s # <<>> /\ Head(s) \in Whitespace THEN lstrip(Tail(s)) ELSE s
RECURSIVE rstrip(_)
rstrip(s) ==
    IF s # <<>> /\ s[Len(s)] \in Whitespace THEN rstrip(SubSeq(s, 1, Len(s) - 1)) ELSE s
strip(s) == rstrip(lstrip(s))

\* service.get_tradingview_data: the analysis, or the empty structure when
\* the handler raises
LiveAnalysis == [indicators |-> [RSI |-> 50], summary |-> [RECOMMENDATION |-> "BUY"]]
get_tradingview_data(fails) ==
    IF fails THEN [indicators |-> <<>>, summary |-> <<>>] ELSE LiveAnalysis

\* sentiment.get_stock_sentiment (score in hundredths): the average of the
\* headlines, or the neutral record when anything raises
LiveSentiment == [score |-> 50, label |-> "Bullish", news_count |-> 3]
get_stock_sentiment(fails) ==
    IF fails
    THEN [score |-> 0, label |-> "Neutral", error |-> "str(e)", news_count |-> 0]
    ELSE LiveSentiment

NoResult == [id |-> 0, symbol |-> <<>>, market_phase |-> <<>>, action |-> "",
             score_desc |-> "", sentiment |-> <<>>, tv_technical_indicators |-> <<>>]
NoResponse == [status |-> 0, body |-> NoResult]

\* The stages of one run of the pipeline, in the order of the code, and what
\* the run meets: the stage whose call raises, or "ok" when every call returns.
\*   "data"        get_stock_data (raises ValueError when there are no bars)
\*   "cleaning"    clean_data_robust
\*   "regime"      detect_regimes_gmm
\*   "selection"   select_best_features
\*   "sentiment"   the news fetch inside get_stock_sentiment
\*   "forecaster"  fit/predict of the main model
\*   "technical"   the handler inside get_tradingview_data
\*   "tracker"     verify_accuracy, after log_prediction has run
\*   "context"     the index fetch inside get_market_trend
Stages == <<"data", "cleaning", "regime", "selection", "sentiment", "forecaster",
            "technical", "tracker", "context">>
Outcomes == {Stages[i] : i \in 1..Len(Stages)} \cup {"ok"}
\* the same stages with the technical-summary call left unprotected
GuardedButTechnical == {"cleaning", "regime", "sentiment", "context"}
\* the stages whose call sits in a try/except that substitutes a default
Guarded == {"cleaning", "regime", "sentiment", "technical", "context"}
StageIndex(stage) == CHOOSE i \in 1..Len(Stages) : Stages[i] = stage
\* the calls one run makes when stage f fails, each with how it ended
Calls(f) ==
    LET last == IF f \in Guarded \cup {"ok"} THEN Len(Stages) ELSE StageIndex(f)
    IN  {[stage |-> Stages[i], failed |-> Stages[i] = f] : i \in 1..last}

\* the age test with the duration read as minutes instead of hours
CacheFreshMinutes(cache, symbol, t) ==
    /\ symbol \in DOMAIN cache
    /\ (t - cache[symbol].time) * 60 < CACHE_DURATION_HOURS

\* the age test with an entry of exactly the duration still served
CacheFreshInclusive(cache, symbol, t) ==
    /\ symbol \in DOMAIN cache
    /\ t - cache[symbol].time <= CACHE_DURATION_HOURS

\* service.py 135-142: is the entry of symbol served from the cache at time t
CacheFresh(cache, symbol, t) ==
    /\ symbol \in DOMAIN cache
    /\ t - cache[symbol].time < CACHE_DURATION_HOURS

\* a store that updates an existing entry in place, the time first
CacheStoreInPlace(cache, symbol, t, result) ==
    [k \in DOMAIN cache \cup {symbol} |->
        IF k # symbol THEN cache[k]
        ELSE IF symbol \in DOMAIN cache THEN [time |-> t, data |-> cache[symbol].data]
        ELSE [time |-> t, data |-> result]]

\* service.py 413-417
CacheStore(cache, symbol, t, result) ==
    [k \in DOMAIN cache \cup {symbol} |->
        IF k = symbol THEN [time |-> t, data |-> result] ELSE cache[k]]

\* service.py 375-401: the result of a run that reached the end
BuildResult(symbol, env, id) ==
    LET d == Decide(IF env.outcome = "regime" THEN GmmFailed ELSE env.gmm, env.row)
    IN  [id |-> id, symbol |-> symbol,
         market_phase |-> d.market_phase, action |-> d.action,
         score_desc |-> d.score_desc,
         sentiment |-> get_stock_sentiment(env.outcome = "sentiment"),
         tv_technical_indicators |-> get_tradingview_data(env.outcome = "technical")]

\* screener.py 44-58: the row scan_stock makes of a result
scan_row(result) ==
    LET tv_summary == result.tv_technical_indicators.summary
    IN  [Symbol |-> result.symbol, Action |-> result.action, Regime |-> result.market_phase,
         TV_Rec |-> IF tv_summary # <<>> THEN tv_summary.RECOMMENDATION ELSE "N/A",
         error |-> FALSE]
\* screener.py 60-61: the row of a scan that raised
error_row(symbol) ==
    [Symbol |-> symbol, Action |-> "ERROR", Regime |-> <<"N", "/", "A">>,
     TV_Rec |-> "N/A", error |-> TRUE]

\* the same function with an expired entry evicted before the pipeline runs
predict_stock_price_evicting(symbol, env, cache, file, t, nobjects) ==
    IF CacheFresh(cache, symbol, t)
    THEN [raised |-> "", result |-> cache[symbol].data, cache |-> cache,
          file |-> file, invoked |-> {}, nobjects |-> nobjects]
    ELSE LET f == env.outcome
             evicted == [k \in DOMAIN cache \ {symbol} |-> cache[k]]
             logged == IF \E c \in Calls(f) : c.stage = "tracker"
                       THEN log_prediction(file, symbol, env.future_price, t)
                       ELSE file
         IN  IF f \in Guarded \cup {"ok"}
             THEN LET result == BuildResult(symbol, env, nobjects + 1)
                  IN  [raised |-> "", result |-> result,
                       cache |-> CacheStore(evicted, symbol, t, result),
                       file |-> logged, invoked |-> Calls(f),
                       nobjects |-> nobjects + 1]
             ELSE [raised |-> IF f = "data" THEN "ValueError" ELSE "Exception",
                   result |-> NoResult, cache |-> evicted, file |-> logged,
                   invoked |-> Calls(f), nobjects |-> nobjects]

\* service.predict_stock_price as a function of the state it reads: what it
\* returns or raises, and the state it leaves.
predict_stock_price(symbol, env, cache, file, t, nobjects) ==
    IF CacheFresh(cache, symbol, t)
    THEN [raised |-> "", result |-> cache[symbol].data, cache |-> cache,
          file |-> file, invoked |-> {}, nobjects |-> nobjects]
    ELSE LET f == env.outcome
             logged == IF \E c \in Calls(f) : c.stage = "tracker"
                       THEN log_prediction(file, symbol, env.future_price, t)
                       ELSE file
         IN  IF f \in Guarded \cup {"ok"}
             THEN LET result == BuildResult(symbol, env, nobjects + 1)
                  IN  [raised |-> "", result |-> result,
                       cache |-> CacheStore(cache, symbol, t, result),
                       file |-> logged, invoked |-> Calls(f),
                       nobjects |-> nobjects + 1]
             ELSE [raised |-> IF f = "data" THEN "ValueError" ELSE "Exception",
                   result |-> NoResult, cache |-> cache, file |-> logged,
                   invoked |-> Calls(f), nobjects |-> nobjects]

\* main.py 35-39: the except clauses, in order
IsInstance(exc, class) ==
    \/ class = "Exception"
    \/ exc = class
ExceptionStatus(exc) ==
    IF IsInstance(exc, "ValueError") THEN 404 ELSE 500

\* main.predict_endpoint: the response and the state the request leaves
predict_endpoint(raw, env, cache, file, t, nobjects) ==
    LET symbol == upper(strip(raw))
        unchanged == [cache |-> cache, file |-> file, invoked |-> {},
                      nobjects |-> nobjects]
    IN  IF symbol = <<>>
        THEN \* raise HTTPException(400), inside the try block
             [status |-> ExceptionStatus("HTTPException"), body |-> NoResult] @@ unchanged
        ELSE LET r == predict_stock_price(symbol, env, cache, file, t, nobjects)
                 after == [cache |-> r.cache, file |-> r.file, invoked |-> r.invoked,
                           nobjects |-> r.nobjects]
             IN  IF r.raised = ""
                 THEN [status |-> 200, body |-> r.result] @@ after
                 ELSE [status |-> ExceptionStatus(r.raised), body |-> NoResult] @@ after

(***************************************************************************)
(* Specification SpecDecision: the signal decision on every latest row and *)
(* every outcome of the regime detector.                                   *)
(***************************************************************************)
DecisionIdle ==
    /\ dpc = "off" /\ gmm = GmmFailed /\ last_row = NoRow /\ decision = NoDecision
ServiceIdle ==
    /\ PREDICTION_CACHE = <<>> /\ request = <<>> /\ resp = NoResponse
    /\ invoked = {} /\ allocated = 0
TrackerIdle ==
    /\ history = <<>> /\ now = 0 /\ stats = NoStats
ScreenerIdle ==
    /\ wpc = <<>> /\ wlocal = <<>> /\ results = <<>>
BatchIdle ==
    /\ runner = "" /\ data = <<>> /\ task = <<>> /\ consumed = {}
    /\ batch_results = {} /\ bpc = "off"
ThreadIdle ==
    /\ tpc = <<>> /\ tsym = <<>> /\ entry = <<>> /\ built = <<>> /\ returned = <<>>
FeatureIdle ==
    /\ bars = <<>> /\ later = <<>> /\ upto = 0 /\ fpc = "off"
    /\ features = <<>> /\ features_later = <<>> /\ hurst = <<>>
CleanIdle ==
    /\ fetched = <<>> /\ spike_at = 0 /\ cleaned = <<>> /\ npasses = 0
SimIdle ==
    /\ sim = "" /\ spc = "off" /\ df = <<>> /\ executed = <<>> /\ in_position = FALSE
    /\ balance = 0 /\ position = 0 /\ trades = <<>> /\ equity_curve = <<>>
    /\ stop_loss = 0 /\ take_profit = 0
    /\ cash = 0 /\ shares = 0 /\ entry_price = 0 /\ ntrades = 0 /\ wins = 0
    /\ final_val = 0

InitDecision ==
    /\ dpc = "start"
    /\ gmm \in GmmResults
    /\ last_row \in Rows
    /\ decision = NoDecision
    /\ ServiceIdle /\ TrackerIdle /\ ScreenerIdle /\ BatchIdle /\ SimIdle /\ CleanIdle
    /\ FeatureIdle /\ ThreadIdle

DecideStep ==
    /\ dpc = "start"
    /\ dpc' = "done"
    /\ decision' = Decide(gmm, last_row)
    /\ UNCHANGED <<gmm, last_row, notDecision>>

NextDecision == DecideStep
SpecDecision == InitDecision /\ [][NextDecision]_vars

(***************************************************************************)
(* Specification SpecService: /predict requests, one after another, as the *)
(* clock advances.                                                         *)
(***************************************************************************)
RawSymbols == {<<>>, <<" ">>, <<" ", "a">>, <<"B">>}
BearishDip ==
    [Close |-> 110, SMA_200 |-> 100, RSI |-> 40, Volume |-> 100, Volume_SMA_20 |-> 100]
ServiceEnvs ==
    [outcome : Outcomes,
     gmm : {[ok |-> TRUE, means |-> <<0 - 1, 0, 1>>, last |-> 1]},
     row : {BearishDip},
     future_price : {100}]

InitService ==
    /\ DecisionIdle /\ ScreenerIdle /\ BatchIdle /\ SimIdle /\ CleanIdle
    /\ FeatureIdle /\ ThreadIdle
    /\ PREDICTION_CACHE = <<>>
    /\ request = <<>>
    /\ resp = NoResponse
    /\ invoked = {}
    /\ allocated = 0
    /\ history = <<>>
    /\ now = StartHour
    /\ stats = NoStats

PredictRequest(raw, env) ==
    \E r \in {predict_endpoint(raw, env, PREDICTION_CACHE, history, now, allocated)} :
        /\ r.nobjects <= MaxObjects
        /\ request' = raw
        /\ resp' = [status |-> r.status, body |-> r.body]
        /\ PREDICTION_CACHE' = r.cache
        /\ history' = r.file
        /\ invoked' = r.invoked
        /\ allocated' = r.nobjects
        /\ UNCHANGED <<now, stats, notService>>

Tick ==
    /\ now < MaxTime
    /\ now' = now + 1
    /\ UNCHANGED <<serviceVars, history, stats, notService>>

NextService ==
    \/ \E raw \in RawSymbols, env \in ServiceEnvs : PredictRequest(raw, env)
    \/ Tick
SpecService == InitService /\ [][NextService]_vars

(***************************************************************************)
(* Specification SpecTracker: calls of the accuracy tracker, one after     *)
(* another, over several days.                                             *)
(***************************************************************************)
MaxDays == 2            \* the clock stops on this day
TrackerSymbols == {<<"A">>, <<"B">>}
ForecastPrices == {100, 250}

InitTracker ==
    /\ DecisionIdle /\ ServiceIdle /\ ScreenerIdle /\ BatchIdle /\ SimIdle /\ CleanIdle
    /\ FeatureIdle /\ ThreadIdle
    /\ history = <<>>
    /\ now = 0
    /\ stats = NoStats

LogPrediction(symbol, prediction_price) ==
    /\ history' = log_prediction(history, symbol, prediction_price, now)
    /\ UNCHANGED <<now, stats, serviceVars, notService>>

HalfDay ==
    /\ today(now + 12) <= MaxDays
    /\ now' = now + 12
    /\ UNCHANGED <<history, stats, serviceVars, notService>>

NextTracker ==
    \/ \E symbol \in TrackerSymbols, p \in ForecastPrices : LogPrediction(symbol, p)
    \/ HalfDay
SpecTracker == InitTracker /\ [][NextTracker]_vars

(***************************************************************************)
(* Specification SpecVerify: log_prediction and verify_accuracy called one *)
(* after another, for any symbols, over several days.  The exchange trades *)
(* every day of the model; yf.download(period="1mo") returns the bars of   *)
(* the last PeriodDays days, today's included, or nothing when the         *)
(* provider fails.                                                         *)
(***************************************************************************)
LastDay == 2            \* the clock stops on this day
PeriodDays == 1         \* days covered by period="1mo"

\* the daily closes of the exchange
Market == [d \in 0..(LastDay + 1) |-> 100 + (20 * d)]

\* yf.download(download_symbol, period="1mo", interval="1d") at hour t
yf_download(t) ==
    LET days == {d \in DOMAIN Market : d <= today(t) /\ d > today(t) - PeriodDays}
    IN  [d \in days |-> Market[d]]

InitVerify ==
    /\ DecisionIdle /\ ServiceIdle /\ ScreenerIdle /\ BatchIdle /\ SimIdle /\ CleanIdle
    /\ FeatureIdle /\ ThreadIdle
    /\ history = <<>>
    /\ now = 0
    /\ stats = NoStats

VerifyLog(symbol, prediction_price) ==
    /\ history' = log_prediction(history, symbol, prediction_price, now)
    /\ stats' = NoStats
    /\ UNCHANGED <<now, serviceVars, notService>>

\* verify_accuracy(symbol): the file is rewritten only when an entry was updated
VerifyAccuracy(symbol, frame) ==
    \E r \in {verify_entries(load_history(history), symbol, frame)} :
        /\ history' = IF r.updated THEN r.history ELSE history
        /\ stats' = [symbol |-> symbol, returned |-> accuracy_stats(r.history, symbol)]
    /\ UNCHANGED <<now, serviceVars, notService>>

NextDay ==
    /\ today(now) < LastDay
    /\ now' = now + 24
    /\ stats' = NoStats
    /\ UNCHANGED <<history, serviceVars, notService>>

NextVerify ==
    \/ \E symbol \in TrackerSymbols, p \in ForecastPrices : VerifyLog(symbol, p)
    \/ \E symbol \in TrackerSymbols, frame \in {yf_download(now), <<>>} :
          VerifyAccuracy(symbol, frame)
    \/ NextDay
SpecVerify == InitVerify /\ [][NextVerify]_vars

(***************************************************************************)
(* Specification SpecScreener: screener.py runs scan_stock for every       *)
(* symbol of NIFTY_50 on a thread pool; each worker runs the pipeline,     *)
(* whose tracker calls read and rewrite the one log file, and the main     *)
(* thread collects the rows as the workers complete.  A load and a save    *)
(* of the file are each one step.                                          *)
(***************************************************************************)
NumSymbols == 2         \* symbols submitted to the pool
SymbolNames == <<"A", "B", "C", "D">>
NIFTY_50 == {<<SymbolNames[i]>> : i \in 1..NumSymbols}
OldEntry == [date |-> 0, predicted |-> 100, actual |-> None, verified |-> FALSE]
MarketFrames == {<<>>, [d \in {1} |-> 101]}     \* what yf.download returns

InitScreener ==
    /\ DecisionIdle /\ BatchIdle /\ SimIdle /\ CleanIdle
    /\ FeatureIdle /\ ThreadIdle
    /\ PREDICTION_CACHE = <<>> /\ request = <<>> /\ resp = NoResponse
    /\ invoked = {} /\ allocated = 0
    /\ now = 24
    /\ history \in {<<>>, [k \in {<<"A">>} |-> <<OldEntry>>]}
    /\ stats = NoStats
    /\ wpc = [w \in NIFTY_50 |-> "start"]
    /\ wlocal = [w \in NIFTY_50 |-> <<>>]
    /\ results = <<>>

\* service.py 135-153: cache miss, then the fetch and the forecast
ScanFetch(w, ok) ==
    /\ wpc[w] = "start"
    /\ ~CacheFresh(PREDICTION_CACHE, w, now)
    /\ wpc' = [wpc EXCEPT ![w] = IF ok THEN "log_load" ELSE "failed"]
    /\ UNCHANGED <<wlocal, results, serviceVars, trackerVars, notScreener>>

\* tracker.py 33-41: log_prediction loads the file and looks for today's entry
LogLoad(w) ==
    /\ wpc[w] = "log_load"
    /\ LET loaded == load_history(history)
           present == w \in DOMAIN loaded /\ today(now) \in
                          {loaded[w][i].date : i \in 1..Len(loaded[w])}
       IN  /\ wlocal' = [wlocal EXCEPT ![w] = loaded]
           /\ wpc' = [wpc EXCEPT ![w] = IF present THEN "verify_load" ELSE "log_save"]
    /\ UNCHANGED <<results, serviceVars, trackerVars, notScreener>>

\* tracker.py 43-50: append today's entry to the loaded dict and save it
LogSave(w, prediction_price) ==
    /\ wpc[w] = "log_save"
    /\ history' = log_prediction(wlocal[w], w, prediction_price, now)
    /\ wpc' = [wpc EXCEPT ![w] = "verify_load"]
    /\ UNCHANGED <<now, stats, wlocal, results, serviceVars, notScreener>>

\* tracker.py 56-103: verify_accuracy loads the file and verifies in memory
VerifyLoad(w, frame) ==
    /\ wpc[w] = "verify_load"
    /\ LET v == verify_entries(load_history(history), w, frame)
       IN  /\ wlocal' = [wlocal EXCEPT ![w] = v.history]
           /\ wpc' = [wpc EXCEPT ![w] = IF v.updated THEN "verify_save" ELSE "store"]
    /\ UNCHANGED <<results, serviceVars, trackerVars, notScreener>>

\* tracker.py 104-105: save the verified dict
VerifySave(w) ==
    /\ wpc[w] = "verify_save"
    /\ history' = wlocal[w]
    /\ wpc' = [wpc EXCEPT ![w] = "store"]
    /\ UNCHANGED <<now, stats, wlocal, results, serviceVars, notScreener>>

\* service.py 375-419: build the result, store it in the cache, return
ScanStore(w, env) ==
    /\ wpc[w] = "store"
    /\ LET result == BuildResult(w, env, allocated + 1)
       IN  /\ PREDICTION_CACHE' = CacheStore(PREDICTION_CACHE, w, now, result)
           /\ allocated' = allocated + 1
    /\ wpc' = [wpc EXCEPT ![w] = "done"]
    /\ UNCHANGED <<request, resp, invoked, wlocal, results, trackerVars, notScreener>>

\* screener.py 76-83: as_completed hands over a finished future; its row
\* (an ERROR row when scan_stock caught an exception) is appended
Collected == {results[i].Symbol : i \in 1..Len(results)}
ScanCollect(w) ==
    /\ wpc[w] \in {"done", "failed"}
    /\ w \notin Collected
    /\ results' = Append(results, IF wpc[w] = "failed"
                                   THEN error_row(w)
                                   ELSE scan_row(PREDICTION_CACHE[w].data))
    /\ UNCHANGED <<wpc, wlocal, serviceVars, trackerVars, notScreener>>

NextScreener ==
    \/ \E w \in NIFTY_50, ok \in BOOLEAN : ScanFetch(w, ok)
    \/ \E w \in NIFTY_50 : LogLoad(w)
    \/ \E w \in NIFTY_50, p \in ForecastPrices : LogSave(w, p)
    \/ \E w \in NIFTY_50, frame \in MarketFrames : VerifyLoad(w, frame)
    \/ \E w \in NIFTY_50 : VerifySave(w)
    \/ \E w \in NIFTY_50, env \in ServiceEnvs : ScanStore(w, env)
    \/ \E w \in NIFTY_50 : ScanCollect(w)
SpecScreener == InitScreener /\ [][NextScreener]_vars

(***************************************************************************)
(* Specification SpecBatch: the main loops of the three batch runners.     *)
(* The pools (screener.py, backtest_parallel.py) run the tasks in any      *)
(* order and hand their outcomes over as they complete; backtest.py runs   *)
(* its portfolio in list order.  A symbol's data is "ok", "no_data" (the   *)
(* provider returns no bars) or "short" (bars, but fewer than the          *)
(* indicator warm-up, so that no row is left after dropna).                *)
(***************************************************************************)
BatchSize == 3          \* symbols in the batch
BatchSymbols == 1..BatchSize
DataKinds == {"ok", "no_data", "short"}
Runners == {"screener", "backtest_parallel", "backtest"}

\* screener.py 39-61: every exception becomes an ERROR row
scan_stock(kind) == IF kind = "ok" THEN "row" ELSE "error_row"

\* backtest_parallel.py 19-41: None when the frame is empty or on any exception
get_data(kind) == IF kind = "no_data" THEN "None" ELSE IF kind = "short" THEN "empty" ELSE "frame"

\* backtest_parallel.py 43-111: None without data; on a frame without rows the
\* loop is skipped and df.iloc[-1] (line 102) raises IndexError
backtest_stock(kind) ==
    LET frame == get_data(kind)
    IN  IF frame = "None" THEN "None" ELSE IF frame = "empty" THEN "raised" ELSE "row"

\* backtest.py 196-206: Backtester(symbol).run() inside try/except Exception
portfolio_run(kind) == IF kind = "ok" THEN "report" ELSE "caught"

TaskOutcome(r, kind) ==
    CASE r = "screener" -> scan_stock(kind)
      [] r = "backtest_parallel" -> backtest_stock(kind)
      [] r = "backtest" -> portfolio_run(kind)

InitBatch ==
    /\ DecisionIdle /\ ServiceIdle /\ TrackerIdle /\ ScreenerIdle /\ SimIdle /\ CleanIdle
    /\ FeatureIdle /\ ThreadIdle
    /\ runner \in Runners
    /\ data \in [BatchSymbols -> DataKinds]
    /\ task = [sym \in BatchSymbols |-> "pending"]
    /\ consumed = {}
    /\ batch_results = {}
    /\ bpc = "running"

\* a pool worker runs one submitted task to its end (the pool is also drained
\* when the main loop has died: the with block waits for it)
PoolRun(sym) ==
    /\ runner \in {"screener", "backtest_parallel"}
    /\ task[sym] = "pending"
    /\ task' = [task EXCEPT ![sym] = TaskOutcome(runner, data[sym])]
    /\ UNCHANGED <<runner, data, consumed, batch_results, bpc, notBatch>>

\* screener.py 76-83: future.result() inside try/except; the row is appended
ScreenerCollect(sym) ==
    /\ runner = "screener" /\ bpc = "running"
    /\ task[sym] # "pending" /\ sym \notin consumed
    /\ consumed' = consumed \cup {sym}
    /\ batch_results' = batch_results \cup {sym}
    /\ UNCHANGED <<runner, data, task, bpc, notBatch>>

\* backtest_parallel.py 121-127: future.result() is not guarded; a raised
\* task ends the loop and the script, None is skipped, a row is appended
ParallelCollect(sym) ==
    /\ runner = "backtest_parallel" /\ bpc = "running"
    /\ task[sym] # "pending" /\ sym \notin consumed
    /\ consumed' = consumed \cup {sym}
    /\ batch_results' = IF task[sym] = "row" THEN batch_results \cup {sym} ELSE batch_results
    /\ bpc' = IF task[sym] = "raised" THEN "aborted" ELSE bpc
    /\ UNCHANGED <<runner, data, task, notBatch>>

\* backtest.py 196-206: the next symbol of PORTFOLIO, inside try/except
PortfolioStep(sym) ==
    /\ runner = "backtest" /\ bpc = "running"
    /\ sym \notin consumed /\ \A x \in BatchSymbols : x < sym => x \in consumed
    /\ task' = [task EXCEPT ![sym] = TaskOutcome(runner, data[sym])]
    /\ consumed' = consumed \cup {sym}
    /\ batch_results' = IF data[sym] = "ok" THEN batch_results \cup {sym} ELSE batch_results
    /\ UNCHANGED <<runner, data, bpc, notBatch>>

\* the loop has seen every symbol
BatchEnd ==
    /\ bpc = "running"
    /\ consumed = BatchSymbols
    /\ bpc' = "done"
    /\ UNCHANGED <<runner, data, task, consumed, batch_results, notBatch>>

NextBatch ==
    \/ \E sym \in BatchSymbols : PoolRun(sym)
    \/ \E sym \in BatchSymbols : ScreenerCollect(sym)
    \/ \E sym \in BatchSymbols : ParallelCollect(sym)
    \/ \E sym \in BatchSymbols : PortfolioStep(sym)
    \/ BatchEnd
SpecBatch == InitBatch /\ [][NextBatch]_vars

(***************************************************************************)
(* Specification SpecSim: the three bar-by-bar simulators.  The frame is   *)
(* replayed one bar per step and may end after any bar of it.  A bar is    *)
(* its close and the indicator values of its row.  Prices are whole        *)
(* numbers on which the float products price * 0.95, price * 1.10 and      *)
(* price * 0.92 compare as the exact ones do.                              *)
(***************************************************************************)
MaxBars == 4            \* bars in the frame
VolumeWindow == 2       \* rows of the rolling volume mean (20 in the source)

initial_capital == 100000
CAPITAL == 100000
Strategies == {"Pure_Trend", "Pure_RSI", "Combined_V4"}
Simulators == {"Backtester", "backtest_stock"} \cup Strategies

SimPrices(s) == IF s = "Backtester" THEN {18, 19, 20, 22} ELSE {22, 23, 25}
Indicators ==
    {[SMA_200 |-> 15, RSI |-> 25, Volume |-> 100, Volume_SMA_20 |-> 100],
     [SMA_200 |-> 15, RSI |-> 35, Volume |-> 100, Volume_SMA_20 |-> 100],
     [SMA_200 |-> 15, RSI |-> 42, Volume |-> 100, Volume_SMA_20 |-> 100],
     [SMA_200 |-> 15, RSI |-> 50, Volume |-> 100, Volume_SMA_20 |-> 100],
     [SMA_200 |-> 15, RSI |-> 75, Volume |-> 100, Volume_SMA_20 |-> 100],
     [SMA_200 |-> 15, RSI |-> 35, Volume |-> 300, Volume_SMA_20 |-> 100],
     [SMA_200 |-> 30, RSI |-> 35, Volume |-> 100, Volume_SMA_20 |-> 100],
     [SMA_200 |-> 15, RSI |-> 35, Volume |-> 100, Volume_SMA_20 |-> NaN],
     [SMA_200 |-> 15, RSI |-> 75, Volume |-> 100, Volume_SMA_20 |-> NaN],
     [SMA_200 |-> NaN, RSI |-> 35, Volume |-> 100, Volume_SMA_20 |-> 100]}
\* get_data and process_stock_data end with dropna(): no NaN in their rows
CompleteIndicators == {ind \in Indicators : ind.SMA_200 # NaN /\ ind.Volume_SMA_20 # NaN}
\* Backtester.run computes Volume_SMA_20 on the trimmed frame: the rolling
\* mean is NaN on the rows before the window is full, and a number after
BacktesterRows(i) == {ind \in Indicators : (ind.Volume_SMA_20 = NaN) <=> (i < VolumeWindow)}

\* Backtester.get_signal
get_signal(price, ind) ==
    IF ind.SMA_200 = NaN THEN "WAIT"
    ELSE LET trend_up == Gt(price, ind.SMA_200)
             dip == Lt(ind.RSI, 40)
             rip == Gt(ind.RSI, 70)
             safe_volume == Lt(ind.Volume, 2 * ind.Volume_SMA_20)
         IN  IF trend_up /\ dip /\ safe_volume THEN "BUY"
             ELSE IF rip THEN "SELL"
             ELSE "WAIT"

\* a sale that credits the position at its purchase price
execute_sell_at_cost(date, price, reason) ==
    LET buys == {i \in 1..Len(trades) : trades[i].Type = "BUY"}
        last_buy == trades[CHOOSE i \in buys : \A j \in buys : j <= i].Price
        proceeds == position * last_buy
    IN  [balance |-> balance + proceeds,
         position |-> 0,
         trades |-> Append(trades, [Date |-> date, Type |-> "SELL", Price |-> price,
                                    Balance |-> balance + proceeds, Profit |-> 0,
                                    Reason |-> reason])]

\* Backtester.execute_sell, on the object's fields
execute_sell(date, price, reason) ==
    LET proceeds == position * price
        buys == {i \in 1..Len(trades) : trades[i].Type = "BUY"}
        last_buy == trades[CHOOSE i \in buys : \A j \in buys : j <= i].Price
        profit == proceeds - (position * last_buy)
    IN  [balance |-> balance + proceeds,
         position |-> 0,
         trades |-> Append(trades, [Date |-> date, Type |-> "SELL", Price |-> price,
                                    Balance |-> balance + proceeds, Profit |-> profit,
                                    Reason |-> reason])]

\* backtest.py 94-103: stop-loss / take-profit exit, then `continue`
ProtectiveExit(date, price, reason) ==
    LET s == execute_sell(date, price, reason)
    IN  [in_position |-> FALSE, balance |-> s.balance, position |-> s.position,
         trades |-> s.trades, equity_curve |-> equity_curve,
         stop_loss |-> stop_loss, take_profit |-> take_profit,
         executed |-> <<reason>>]

\* backtest.py 106: may the bar's BUY signal be executed
BuyAllowedAlways(signal, held) == signal = "BUY"
BuyAllowed(signal, held) == signal = "BUY" /\ ~held

\* backtest.py 105-126: action logic and the equity point
ActionLogic(date, price, signal) ==
    LET a == IF BuyAllowed(signal, in_position)
             THEN LET n == balance \div price
                  IN  [in_position |-> TRUE, balance |-> balance - n * price,
                       position |-> n,
                       trades |-> Append(trades, [Date |-> date, Type |-> "BUY",
                                                  Price |-> price,
                                                  Balance |-> balance - n * price]),
                       stop_loss |-> Rat(price * 95, 100),
                       take_profit |-> Rat(price * 110, 100),
                       executed |-> <<"BUY">>]
             ELSE IF signal = "SELL" /\ in_position
             THEN LET s == execute_sell(date, price, "Signal")
                  IN  [in_position |-> FALSE, balance |-> s.balance,
                       position |-> s.position, trades |-> s.trades,
                       stop_loss |-> stop_loss, take_profit |-> take_profit,
                       executed |-> <<"Signal">>]
             ELSE [in_position |-> in_position, balance |-> balance,
                   position |-> position, trades |-> trades,
                   stop_loss |-> stop_loss, take_profit |-> take_profit,
                   executed |-> <<>>]
    IN  a @@ [equity_curve |-> Append(equity_curve, a.balance + (a.position * price))]

\* the loop iteration without the stop-loss branch
RunBarNoStopLoss(date, price, signal) ==
    IF in_position /\ RLe(take_profit, Whole(price))
    THEN ProtectiveExit(date, price, "TP")
    ELSE ActionLogic(date, price, signal)
\* backtest.py 90-126: one iteration of the loop of Backtester.run
RunBar(date, price, signal) ==
    IF in_position /\ RLe(Whole(price), stop_loss)
    THEN ProtectiveExit(date, price, "SL")
    ELSE IF in_position /\ RLe(take_profit, Whole(price))
    THEN ProtectiveExit(date, price, "TP")
    ELSE ActionLogic(date, price, signal)

\* backtest.py 128-130: final liquidation
FinalLiquidationNone ==
    [balance |-> balance, position |-> position, trades |-> trades]
FinalLiquidation ==
    IF in_position
    THEN execute_sell(Len(df), df[Len(df)], "End")
    ELSE [balance |-> balance, position |-> position, trades |-> trades]

\* backtest_granular.py 102-114 and backtest_parallel.py 75-87: market order
MarketOrder(price, buy_signal, sell_signal) ==
    IF buy_signal /\ ~in_position
    THEN [in_position |-> TRUE, cash |-> Whole(0), shares |-> ROver(cash, price),
          entry_price |-> price, ntrades |-> ntrades + 1, wins |-> wins,
          executed |-> <<"BUY">>]
    ELSE IF sell_signal /\ in_position
    THEN [in_position |-> FALSE, cash |-> RTimes(shares, price), shares |-> Whole(0),
          entry_price |-> entry_price, ntrades |-> ntrades,
          wins |-> IF price > entry_price THEN wins + 1 ELSE wins,
          executed |-> <<"Signal">>]
    ELSE [in_position |-> in_position, cash |-> cash, shares |-> shares,
          entry_price |-> entry_price, ntrades |-> ntrades, wins |-> wins,
          executed |-> <<>>]

\* backtest_parallel.py 89-94: hard stop at -8 %, after the market order
StopLoss(o, price) ==
    IF o.in_position /\ 100 * price < 92 * o.entry_price
    THEN [o EXCEPT !.in_position = FALSE, !.cash = RTimes(o.shares, price),
                   !.shares = Whole(0), !.executed = Append(o.executed, "SL")]
    ELSE o

\* backtest_parallel.py 64-73: the signals of backtest_stock
StockSignals(price, ind) ==
    LET up == Gt(price, ind.SMA_200)
        dip == Lt(ind.RSI, 45)
        rip == Gt(ind.RSI, 70)
        safe == Lt(10 * ind.Volume, 25 * ind.Volume_SMA_20)
    IN  [buy |-> up /\ dip /\ safe, sell |-> rip]

\* backtest_granular.py 77-100: the signals of run_simulation
StrategySignals(strategy_name, price, ind) ==
    CASE strategy_name = "Pure_Trend" ->
            IF Gt(price, ind.SMA_200) THEN [buy |-> TRUE, sell |-> FALSE]
                                      ELSE [buy |-> FALSE, sell |-> TRUE]
      [] strategy_name = "Pure_RSI" ->
            IF Lt(ind.RSI, 30) THEN [buy |-> TRUE, sell |-> FALSE]
            ELSE IF Gt(ind.RSI, 70) THEN [buy |-> FALSE, sell |-> TRUE]
            ELSE [buy |-> FALSE, sell |-> FALSE]
      [] strategy_name = "Combined_V4" ->
            IF Gt(price, ind.SMA_200) /\ Lt(ind.RSI, 45) THEN [buy |-> TRUE, sell |-> FALSE]
            ELSE IF Gt(ind.RSI, 70) THEN [buy |-> FALSE, sell |-> TRUE]
            ELSE [buy |-> FALSE, sell |-> FALSE]

\* final_val of backtest_stock and run_simulation
FinalValue == IF in_position THEN RTimes(shares, df[Len(df)]) ELSE cash

\* Backtester.report: win_rate over the SELL trades of the ledger
report_win_rate ==
    LET sell_trades == {i \in 1..Len(trades) : trades[i].Type = "SELL"}
        win_trades == {i \in sell_trades : trades[i].Profit > 0}
    IN  IF sell_trades # {}
        THEN Rat(Cardinality(win_trades) * 100, Cardinality(sell_trades))
        ELSE Whole(0)

\* backtest_stock and run_simulation: win_rate = wins / trades * 100
win_rate == IF ntrades > 0 THEN Rat(wins * 100, ntrades) ELSE Whole(0)

\* Backtester.report, drawdown: peak = equity_series.cummax()
cummax_first(curve, i) == curve[1]
cummax(curve, i) == CHOOSE m \in {curve[j] : j \in 1..i} : \A j \in 1..i : curve[j] <= m
\* drawdown = (equity_series - peak) / peak, at bar i
drawdown(curve, i) == Rat(curve[i] - cummax(curve, i), cummax(curve, i))
\* max_drawdown = drawdown.min() * 100
max_drawdown ==
    LET all == {drawdown(equity_curve, i) : i \in 1..Len(equity_curve)}
        least == CHOOSE m \in all : \A r \in all : RLe(m, r)
    IN  RTimes(least, 100)

InitSim ==
    /\ DecisionIdle /\ ServiceIdle /\ TrackerIdle /\ ScreenerIdle /\ BatchIdle /\ CleanIdle
    /\ FeatureIdle /\ ThreadIdle
    /\ sim \in Simulators
    /\ spc = "loop"
    /\ df = <<>>
    /\ executed = <<>>
    /\ in_position = FALSE
    /\ balance = IF sim = "Backtester" THEN initial_capital ELSE 0
    /\ position = 0
    /\ trades = <<>>
    /\ equity_curve = <<>>
    /\ stop_loss = Whole(0)
    /\ take_profit = Whole(0)
    /\ cash = IF sim = "Backtester" THEN Whole(0) ELSE Whole(CAPITAL)
    /\ shares = Whole(0)
    /\ entry_price = 0
    /\ ntrades = 0
    /\ wins = 0
    /\ final_val = Whole(0)

\* Backtester.run: one bar
BacktesterBar(close, ind) ==
    /\ sim = "Backtester" /\ spc = "loop" /\ Len(df) < MaxBars
    /\ \E r \in {RunBar(Len(df) + 1, close, get_signal(close, ind))} :
        /\ in_position' = r.in_position
        /\ balance' = r.balance
        /\ position' = r.position
        /\ trades' = r.trades
        /\ equity_curve' = r.equity_curve
        /\ stop_loss' = r.stop_loss
        /\ take_profit' = r.take_profit
        /\ executed' = r.executed
    /\ df' = Append(df, close)
    /\ UNCHANGED <<sim, spc, funcVars, notSim>>

\* Backtester.run: the frame has ended; liquidate, then report()
\* (report reads df['Close'].iloc[0] and raises IndexError on an empty frame)
BacktesterEnd ==
    /\ sim = "Backtester" /\ spc = "loop"
    /\ \E r \in {FinalLiquidation} :
        /\ balance' = r.balance
        /\ position' = r.position
        /\ trades' = r.trades
    /\ executed' = IF in_position THEN <<"End">> ELSE <<>>
    /\ spc' = IF df = <<>> THEN "raised" ELSE "done"
    /\ UNCHANGED <<sim, df, in_position, equity_curve, stop_loss, take_profit,
                   funcVars, notSim>>

\* backtest_stock / run_simulation: one bar (bar 0 is skipped)
FunctionBar(close, ind) ==
    /\ sim # "Backtester" /\ spc = "loop" /\ Len(df) < MaxBars
    /\ \E sig \in {IF sim = "backtest_stock" THEN StockSignals(close, ind)
                                             ELSE StrategySignals(sim, close, ind)} :
       \E o \in {MarketOrder(close, sig.buy, sig.sell)} :
       \E r \in {IF Len(df) < 1
                 THEN [o EXCEPT !.in_position = in_position, !.cash = cash,
                                !.shares = shares, !.entry_price = entry_price,
                                !.ntrades = ntrades, !.wins = wins, !.executed = <<>>]
                 ELSE IF sim = "backtest_stock" THEN StopLoss(o, close) ELSE o} :
        /\ in_position' = r.in_position
        /\ cash' = r.cash
        /\ shares' = r.shares
        /\ entry_price' = r.entry_price
        /\ ntrades' = r.ntrades
        /\ wins' = r.wins
        /\ executed' = r.executed
    /\ df' = Append(df, close)
    /\ UNCHANGED <<sim, spc, final_val, classVars, notSim>>

\* backtest_stock / run_simulation: the loop has ended.  backtest_stock then
\* reads df.iloc[-1] for the benchmark and raises IndexError on an empty
\* frame; run_simulation is only called on frames of at least 200 rows.
FunctionEnd ==
    /\ sim # "Backtester" /\ spc = "loop"
    /\ sim \in Strategies => df # <<>>
    /\ final_val' = IF df = <<>> THEN cash ELSE FinalValue
    /\ spc' = IF df = <<>> THEN "raised" ELSE "done"
    /\ executed' = <<>>
    /\ UNCHANGED <<sim, df, in_position, cash, shares, entry_price, ntrades, wins,
                   classVars, notSim>>

NextSim ==
    \/ \E close \in SimPrices(sim), ind \in BacktesterRows(Len(df) + 1) :
            BacktesterBar(close, ind)
    \/ BacktesterEnd
    \/ \E close \in SimPrices(sim), ind \in CompleteIndicators : FunctionBar(close, ind)
    \/ FunctionEnd
SpecSim == InitSim /\ [][NextSim]_vars

(***************************************************************************)
(* Specification SpecClean: feature_engine.clean_data_robust on a Close    *)
(* column, applied once and then again to its own output.  The column is   *)
(* any sequence of the closes below, gaps (NaN) included, or a gap-free    *)
(* one into which one spike was injected: the close of one bar set to      *)
(* SpikeFactor times the local median.                                     *)
(***************************************************************************)
CleanLen == 7           \* bars in the column
MaxPasses == 2          \* times the filter is applied
SpikeFactor == 10       \* the spike, as a multiple of the local median

window == 5
threshold == 15
Inf == 0 - 3            \* np.inf or -np.inf
CloseValues == {10, 11, NaN}

\* df.ffill(): a gap takes the last value before it
RECURSIVE ffill(_)
ffill(col) ==
    IF col = <<>> THEN <<>>
    ELSE LET init == ffill(SubSeq(col, 1, Len(col) - 1))
             x == col[Len(col)]
         IN  Append(init, IF x = NaN /\ init # <<>> THEN init[Len(init)] ELSE x)

\* df.bfill(): a gap takes the next value after it
RECURSIVE bfill(_)
bfill(col) ==
    IF col = <<>> THEN <<>>
    ELSE LET rest == bfill(Tail(col))
             x == Head(col)
         IN  <<IF x = NaN /\ rest # <<>> THEN Head(rest) ELSE x>> \o rest

\* df.replace([np.inf, -np.inf], np.nan)
replace_inf(col) == [i \in 1..Len(col) |-> IF col[i] = Inf THEN NaN ELSE col[i]]

\* df.dropna(subset=['Close'])
IsNumber(x) == x # NaN
dropna(col) == SelectSeq(col, IsNumber)

\* np.median of an odd number of values
median(xs) ==
    LET half == (Len(xs) + 1) \div 2
    IN  CHOOSE v \in {xs[i] : i \in 1..Len(xs)} :
            /\ Cardinality({i \in 1..Len(xs) : xs[i] < v}) < half
            /\ Cardinality({i \in 1..Len(xs) : xs[i] <= v}) >= half

\* the rows of the trailing window that ends at row i
rolling(col, i) == SubSeq(col, i - window + 1, i)

\* the rolling median with the warm-up rows filled with 0
rolling_median_zero_filled(col) ==
    [i \in 1..Len(col) |-> IF i < window THEN 0 ELSE median(rolling(col, i))]

\* rolling(window).median().fillna(df['Close'])
rolling_median(col) ==
    [i \in 1..Len(col) |-> IF i < window THEN col[i] ELSE median(rolling(col, i))]

\* rolling(window).apply(median(|x - median(x)|)).fillna(0)
rolling_mad(col) ==
    [i \in 1..Len(col) |->
        IF i < window THEN 0
        ELSE LET x == rolling(col, i)
                 m == median(x)
             IN  median([k \in 1..Len(x) |-> Abs(x[k] - m)])]

lower_bound(col) ==
    [i \in 1..Len(col) |-> rolling_median(col)[i] - (threshold * rolling_mad(col)[i])]
upper_bound(col) ==
    [i \in 1..Len(col) |-> rolling_median(col)[i] + (threshold * rolling_mad(col)[i])]

\* feature_engine.clean_data_robust, on the Close column
clean_data_robust(col) ==
    LET close == dropna(replace_inf(bfill(ffill(col))))
        med == rolling_median(close)
        lo == lower_bound(close)
        hi == upper_bound(close)
    IN  [i \in 1..Len(close) |->
            IF close[i] > hi[i] \/ close[i] < lo[i] THEN med[i] ELSE close[i]]

HasGap(col) == \E i \in 1..Len(col) : col[i] \in {NaN, Inf}

InitClean ==
    /\ DecisionIdle /\ ServiceIdle /\ TrackerIdle /\ ScreenerIdle /\ BatchIdle /\ SimIdle
    /\ FeatureIdle /\ ThreadIdle
    /\ spike_at \in 0..CleanLen
    /\ \E base \in [1..CleanLen -> CloseValues], first \in {Inf} \cup CloseValues :
          /\ spike_at # 0 => ~HasGap(base)
          /\ first \in {base[1], Inf}
          /\ first = Inf => spike_at = 0
          /\ fetched = IF spike_at = 0 THEN [base EXCEPT ![1] = first]
                       ELSE [base EXCEPT ![spike_at] =
                                SpikeFactor * rolling_median(base)[spike_at]]
    /\ cleaned = <<>>
    /\ npasses = 0

\* one call of the filter: on the fetched column, then on its own output
CleanPass ==
    /\ npasses < MaxPasses
    /\ cleaned' = clean_data_robust(IF npasses = 0 THEN fetched ELSE cleaned)
    /\ npasses' = npasses + 1
    /\ UNCHANGED <<fetched, spike_at, notClean>>

NextClean == CleanPass
SpecClean == InitClean /\ [][NextClean]_vars

(***************************************************************************)
(* Specification SpecFeatures: feature_engine.add_advanced_features on two *)
(* Close columns that agree up to one bar, and direct calls of             *)
(* calculate_hurst.  Of the derived fields the model keeps one rolling     *)
(* mean (SMA), Return_1d and Hurst; every value is a record: an exact      *)
(* rational [n, d], a gap (NaN), or a Hurst value.  The slope that         *)
(* calculate_hurst fits is kept as a term over the slice it is fitted on,  *)
(* and a linear interpolation as a term over its two end points.           *)
(***************************************************************************)
FeatLen == 15           \* longest column
SmaWindow == 3          \* rows of the rolling mean (50, 200 in the source)
HurstWindow == 12       \* window of add_hurst_feature (100 in the source)
HurstStride == 2        \* stride of add_hurst_feature (5 in the source)

Gap == [kind |-> "nan"]
Half == [kind |-> "0.5"]
check_lags == {2, 5, 10, 20, 30}

\* SMAIndicator(close, window).sma_indicator(): NaN until the window is full
sma_indicator(col) ==
    [i \in 1..Len(col) |->
        IF i < SmaWindow THEN Gap
        ELSE LET w == SubSeq(col, i - SmaWindow + 1, i)
                 RECURSIVE Sum(_)
                 Sum(k) == IF k = 0 THEN 0 ELSE w[k] + Sum(k - 1)
             IN  Rat(Sum(SmaWindow), SmaWindow)]

\* df['Close'].pct_change()
pct_change(col) ==
    [i \in 1..Len(col) |-> IF i = 1 THEN Gap ELSE Rat(col[i] - col[i - 1], col[i - 1])]

\* np.subtract(series[lag:], series[:-lag])
LagDifferences(series, lag) ==
    [k \in 1..(Len(series) - lag) |-> series[k + lag] - series[k]]
\* np.std(pp) = 0
ZeroStd(pp) == \A i, j \in 1..Len(pp) : pp[i] = pp[j]

\* calculate_hurst with the short-series test dropped
calculate_hurst_unchecked(series, log0) ==
    LET lags == {l \in check_lags : l < Len(series)}
    IN  IF \E l \in lags : ZeroStd(LagDifferences(series, l))
        THEN IF log0 = "raises" THEN Half ELSE Gap
        ELSE [kind |-> "slope", of |-> series]
\* feature_engine.calculate_hurst.  A lag whose differences have no spread
\* gives log(0) = -inf, on which polyfit either raises (the except returns
\* 0.5) or yields NaN.
calculate_hurst(series, log0) ==
    LET lags == {l \in check_lags : l < Len(series)}
    IN  IF Cardinality(lags) < 3 THEN Half
        ELSE IF \E l \in lags : ZeroStd(LagDifferences(series, l))
        THEN IF log0 = "raises" THEN Half ELSE Gap
        ELSE [kind |-> "slope", of |-> series]

\* interpolate(method='linear') between two values, num/den of the way
Interpolated(a, b, num, den) ==
    IF a = b THEN a
    ELSE [kind |-> "interp", from |-> a, to |-> b, num |-> num, den |-> den]

\* feature_engine.add_hurst_feature: the Hurst column
add_hurst_feature(col, log0) ==
    LET n == Len(col)
        computed == {r \in 1..n : r > HurstWindow /\ (r - HurstWindow - 1) % HurstStride = 0}
        raw == [r \in 1..n |->
                   IF r \in computed
                   THEN calculate_hurst(SubSeq(col, r - HurstWindow, r - 1), log0)
                   ELSE Half]
        \* replace(0.5, np.nan)
        sparse == [r \in 1..n |-> IF raw[r] = Half THEN Gap ELSE raw[r]]
        valid == {r \in 1..n : sparse[r] # Gap}
    IN  [r \in 1..n |->
            LET before == {v \in valid : v <= r}
                after == {v \in valid : v >= r}
            IN  IF before = {} THEN Half            \* left as NaN, then fillna(0.5)
                ELSE LET p == CHOOSE v \in before : \A x \in before : x <= v
                     IN  IF after = {} THEN sparse[p]
                         ELSE LET q == CHOOSE v \in after : \A x \in after : v <= x
                              IN  IF p = q THEN sparse[r]
                                  ELSE Interpolated(sparse[p], sparse[q], r - p, q - p)]

\* df.bfill() then df.ffill() on one derived column
RECURSIVE bfill_column(_)
bfill_column(col) ==
    IF col = <<>> THEN <<>>
    ELSE LET rest == bfill_column(Tail(col))
         IN  <<IF Head(col) = Gap /\ rest # <<>> THEN Head(rest) ELSE Head(col)>> \o rest
RECURSIVE ffill_column(_)
ffill_column(col) ==
    IF col = <<>> THEN <<>>
    ELSE LET init == ffill_column(SubSeq(col, 1, Len(col) - 1))
             x == col[Len(col)]
         IN  Append(init, IF x = Gap /\ init # <<>> THEN init[Len(init)] ELSE x)
FillGenerated(col) == ffill_column(bfill_column(col))

\* feature_engine.add_advanced_features: the derived fields of every row
add_advanced_features(col, log0) ==
    LET sma == FillGenerated(sma_indicator(col))
        ret == FillGenerated(pct_change(col))
        hur == FillGenerated(add_hurst_feature(col, log0))
    IN  [i \in 1..Len(col) |-> [SMA |-> sma[i], Return_1d |-> ret[i], Hurst |-> hur[i]]]

\* the columns of the model: a pattern of three closes, one bar of it raised
BasePattern(n) == [i \in 1..n |-> IF i % 3 = 0 THEN 10 ELSE 11]
Raised(col, k) == [col EXCEPT ![k] = @ + 2]
Columns ==
    UNION {{BasePattern(n)} \cup {Raised(BasePattern(n), k) : k \in 1..n} : n \in 1..FeatLen}

InitFeatures ==
    /\ DecisionIdle /\ ServiceIdle /\ TrackerIdle /\ ScreenerIdle /\ BatchIdle /\ SimIdle
    /\ CleanIdle /\ ThreadIdle
    /\ bars \in Columns
    /\ upto \in 1..Len(bars)
    /\ later \in {SubSeq(bars, 1, upto)} \cup
                {Raised(bars, k) : k \in {upto + 1} \cap (1..Len(bars))}
    /\ fpc = "start"
    /\ features = <<>>
    /\ features_later = <<>>
    /\ hurst = <<>>

\* what numpy makes of log(0) in this process
Numerics == {"raises", "nan"}

\* add_advanced_features on each of the two columns
GenerateFeatures(log0) ==
    /\ fpc = "start"
    /\ fpc' = "done"
    /\ features' = add_advanced_features(bars, log0)
    /\ features_later' = add_advanced_features(later, log0)
    /\ UNCHANGED <<bars, later, upto, hurst, notFeature>>

\* calculate_hurst called on the first k closes of bars
HurstCall(k, log0) ==
    /\ fpc = "done"
    /\ hurst' = [length |-> k, value |-> calculate_hurst(SubSeq(bars, 1, k), log0)]
    /\ UNCHANGED <<bars, later, upto, fpc, features, features_later, notFeature>>

NextFeatures ==
    \/ \E log0 \in Numerics : GenerateFeatures(log0)
    \/ \E k \in 0..FeatLen, log0 \in Numerics : k <= Len(bars) /\ HurstCall(k, log0)
SpecFeatures == InitFeatures /\ [][NextFeatures]_vars

(***************************************************************************)
(* Specification SpecThreads: predict_stock_price called on several        *)
(* threads at once (the worker threads of the endpoint, the pool of the    *)
(* screener), for the same or for different symbols, while the clock runs. *)
(* A thread's steps are its reads and writes of PREDICTION_CACHE: the      *)
(* lookup that binds `entry`, and the end of its run of the pipeline with  *)
(* the subscript store of the dict it built.                               *)
(***************************************************************************)
NumThreads == 3
Threads == 1..NumThreads
ThreadSymbols == {<<"A">>, <<"B">>}
ThreadEnvs == {env \in ServiceEnvs : env.outcome \in {"ok", "data"}}

InitThreads ==
    /\ DecisionIdle /\ ScreenerIdle /\ BatchIdle /\ SimIdle /\ CleanIdle /\ FeatureIdle
    /\ PREDICTION_CACHE = <<>> /\ request = <<>> /\ resp = NoResponse
    /\ invoked = {} /\ allocated = 0
    /\ history = <<>> /\ now = StartHour /\ stats = NoStats
    /\ tpc = [t \in Threads |-> "check"]
    /\ tsym \in [Threads -> ThreadSymbols]
    /\ entry = [t \in Threads |-> <<>>]
    /\ built = [t \in Threads |-> <<>>]
    /\ returned = [t \in Threads |-> <<>>]

\* service.py 135-142: the lookup; a fresh entry's data is returned
CacheCheck(t) ==
    /\ tpc[t] = "check"
    /\ IF tsym[t] \in DOMAIN PREDICTION_CACHE
       THEN /\ entry' = [entry EXCEPT ![t] = PREDICTION_CACHE[tsym[t]]]
            /\ IF CacheFresh(PREDICTION_CACHE, tsym[t], now)
               THEN /\ returned' = [returned EXCEPT ![t] = PREDICTION_CACHE[tsym[t]].data]
                    /\ tpc' = [tpc EXCEPT ![t] = "returned"]
               ELSE /\ tpc' = [tpc EXCEPT ![t] = "pipeline"]
                    /\ UNCHANGED returned
       ELSE /\ tpc' = [tpc EXCEPT ![t] = "pipeline"]
            /\ UNCHANGED <<entry, returned>>
    /\ UNCHANGED <<tsym, built, serviceVars, trackerVars, notThread>>

\* service.py 144-419: the run raises, or builds its result, stores the
\* dict {'time': now, 'data': result} under the symbol and returns the result
RunPipeline(t, env) ==
    /\ tpc[t] = "pipeline"
    /\ IF env.outcome = "ok"
       THEN LET result == BuildResult(tsym[t], env, allocated + 1)
            IN  /\ built' = [built EXCEPT ![t] = [time |-> now, data |-> result]]
                /\ PREDICTION_CACHE' = CacheStore(PREDICTION_CACHE, tsym[t], now, result)
                /\ returned' = [returned EXCEPT ![t] = result]
                /\ allocated' = allocated + 1
                /\ tpc' = [tpc EXCEPT ![t] = "returned"]
       ELSE /\ tpc' = [tpc EXCEPT ![t] = "raised"]
            /\ UNCHANGED <<built, returned, allocated, PREDICTION_CACHE>>
    /\ UNCHANGED <<tsym, entry, request, resp, invoked, trackerVars, notThread>>

ThreadTick ==
    /\ now < MaxTime
    /\ now' = now + 1
    /\ UNCHANGED <<history, stats, serviceVars, threadVars, notThread>>

NextThreads ==
    \/ \E t \in Threads : CacheCheck(t)
    \/ \E t \in Threads, env \in ThreadEnvs : RunPipeline(t, env)
    \/ ThreadTick
SpecThreads == InitThreads /\ [][NextThreads]_vars

(***************************************************************************)
(* Claims.                                                                 *)
(***************************************************************************)

\* C1: whenever the latest row carries the most bearish label the regime
\* detector can emit, the action is Avoid, whatever the technical flags are.
MostBearishLabel == labels[1]
C1_BearRegimeAvoids ==
    (dpc = "done" /\ gmm.ok /\ decision.market_phase = MostBearishLabel)
        => decision.action = "Avoid"

\* C2: a /predict request whose symbol is empty after stripping is answered
\* with a 4xx status and the pipeline is not run for it.
C2_EmptySymbolClientError ==
    (resp.status # 0 /\ strip(request) = <<>>)
        => (resp.status \in 400..499 /\ invoked = {})

\* C3: a successful request leaves its result object in the cache, and a
\* request for a symbol whose entry is younger than CACHE_DURATION_HOURS
\* returns that very object, calls no collaborator and writes no log.
C3_CacheServesSameObject ==
    [][ /\ (now' = now /\ resp'.status = 200)
            => /\ resp'.body.symbol \in DOMAIN PREDICTION_CACHE'
               /\ PREDICTION_CACHE'[resp'.body.symbol].data = resp'.body
        /\ \A s \in DOMAIN PREDICTION_CACHE :
            (/\ now' = now
             /\ upper(strip(request')) = s
             /\ now - PREDICTION_CACHE[s].time < CACHE_DURATION_HOURS)
                => /\ resp' = [status |-> 200, body |-> PREDICTION_CACHE[s].data]
                   /\ invoked' = {}
                   /\ history' = history
                   /\ PREDICTION_CACHE' = PREDICTION_CACHE
                   /\ allocated' = allocated ]_vars

\* a request served from an entry stored on the previous day, 3 hours old
C3_Witness ==
    /\ resp.status = 200
    /\ invoked = {}
    /\ resp.body.symbol \in DOMAIN PREDICTION_CACHE
    /\ PREDICTION_CACHE[resp.body.symbol].data = resp.body
    /\ now - PREDICTION_CACHE[resp.body.symbol].time = CACHE_DURATION_HOURS - 1
    /\ today(now) > today(PREDICTION_CACHE[resp.body.symbol].time)

\* C4: the log of a symbol holds at most one entry per date, and a
\* log_prediction for a symbol that already has today's entry leaves the
\* symbol's log as it was, whatever price it is given.
Dates(entries) == {entries[i].date : i \in 1..Len(entries)}
C4_OneEntryPerDate ==
    [][ /\ \A s \in DOMAIN history' :
            Cardinality(Dates(history'[s])) = Len(history'[s])
        /\ \A s \in DOMAIN history :
            (now' = now /\ today(now) \in Dates(history[s]))
                => history'[s] = history[s] ]_vars

\* a symbol logged on two dates, the last one today
C4_Witness ==
    \E s \in DOMAIN history :
        /\ Len(history[s]) = 2
        /\ history[s][2].date = today(now)
        /\ history[s][1].predicted # history[s][2].predicted

\* C5: when the screener's workers run the pipeline for different symbols
\* concurrently, after all workers have finished the persisted log holds
\* today's entry for every symbol whose log_prediction call completed.
LogCompleted(w) == wpc[w] \in {"verify_load", "verify_save", "store", "done"}
C5_NoLostLogEntry ==
    (\A w \in DOMAIN wpc : wpc[w] \in {"done", "failed"})
        => \A w \in DOMAIN wpc :
              LogCompleted(w)
                  => /\ w \in DOMAIN history
                     /\ today(now) \in Dates(history[w])

\* C6: in every batch runner a failure while processing one symbol (a symbol
\* whose history is too short included) never aborts the batch: once the
\* batch has ended and the pool is drained, every symbol with usable data
\* has been processed and its result collected.
BatchOver ==
    /\ bpc \in {"done", "aborted"}
    /\ \A sym \in DOMAIN task : task[sym] # "pending"
C6_FailureIsolated ==
    BatchOver => \A sym \in DOMAIN data : data[sym] = "ok" => sym \in batch_results

\* C7: in Backtester.run and backtest_stock, on every bar that begins with an
\* open position and closes at or below the stop-loss level (in Backtester.run
\* also: at or above the take-profit level), the whole position is sold at
\* that close and neither a buy nor a signal-driven sell is executed on it.
BarStep == spc = "loop" /\ df' # df
ThisClose == df'[Len(df')]
C7_ProtectiveExitPreempts ==
    [][ /\ (/\ sim = "Backtester" /\ BarStep /\ in_position
            /\ \/ RLe(Whole(ThisClose), stop_loss)
               \/ RLe(take_profit, Whole(ThisClose)))
                => /\ position' = 0
                   /\ balance' = balance + (position * ThisClose)
                   /\ executed' \in {<<"SL">>, <<"TP">>}
        /\ (/\ sim = "backtest_stock" /\ BarStep /\ in_position
            /\ 100 * ThisClose <= 92 * entry_price)
                => /\ ~in_position'
                   /\ shares' = Whole(0)
                   /\ cash' = RTimes(shares, ThisClose)
                   /\ executed' = <<"SL">> ]_vars

\* C8: when a simulation ends no position is left open: Backtester.run sells
\* an open position at the last close as a SELL with reason End, leaving
\* position = 0 and balance = the final equity; backtest_stock and
\* run_simulation value an open position at the last close in final_val.
EndStep == spc = "loop" /\ spc' = "done"
LastClose == df[Len(df)]
C8_EndLiquidates ==
    [][ /\ (sim = "Backtester" /\ EndStep)
                => /\ position' = 0
                   /\ balance' = balance + (position * LastClose)
                   /\ position > 0 =>
                        /\ Len(trades') = Len(trades) + 1
                        /\ trades'[Len(trades')].Type = "SELL"
                        /\ trades'[Len(trades')].Reason = "End"
                        /\ trades'[Len(trades')].Price = LastClose
                   /\ position = 0 => trades' = trades
        /\ (sim # "Backtester" /\ EndStep)
                => final_val' = IF in_position THEN RTimes(shares, LastClose)
                                               ELSE cash ]_vars

\* a run that ended with shares in hand, sold at the last close
C8_Witness ==
    /\ sim = "Backtester" /\ spc = "done"
    /\ executed = <<"End">>
    /\ position = 0
    /\ trades # <<>>
    /\ trades[Len(trades)].Reason = "End"
    /\ trades[Len(trades)].Price = LastClose
    /\ balance > 0

\* C9: Backtester.run records exactly one equity point per simulated bar,
\* bars with a stop-loss or take-profit exit included: the equity curve is
\* as long as the bar sequence.
C9_OneEquityPointPerBar ==
    sim = "Backtester" => Len(equity_curve) = Len(df)

\* C10: at most one position exists at any time in every simulator: a buy is
\* executed only when flat, a sell only when a position is open, shares are
\* never negative, the ledger of Backtester alternates BUY, SELL, BUY, ...
\* from a BUY, and every SELL has reason Signal, SL, TP or End.
SellReasons == {"Signal", "SL", "TP", "End"}
LedgerAlternates ==
    \A i \in 1..Len(trades) :
        IF i % 2 = 1 THEN trades[i].Type = "BUY"
        ELSE /\ trades[i].Type = "SELL"
             /\ trades[i].Reason \in SellReasons
Holding == IF sim = "Backtester" THEN position > 0 ELSE shares.n > 0
C10_SinglePosition ==
    [][ /\ LedgerAlternates'
        /\ position' >= 0
        /\ shares'.n >= 0
        /\ spc' = "loop" => (in_position' <=> Holding')
        /\ Len(executed') <= 1
        /\ executed' = <<"BUY">> => (~in_position /\ ~Holding /\ Holding')
        /\ (executed' # <<>> /\ executed' # <<"BUY">>)
                => (in_position /\ Holding /\ ~Holding') ]_vars

\* a ledger of two round trips: a stop-loss exit, a re-entry, the final sale
C10_Witness ==
    /\ sim = "Backtester" /\ spc = "done"
    /\ Len(trades) = 4
    /\ trades[2].Reason = "SL"
    /\ trades[3].Type = "BUY"
    /\ trades[4].Reason = "End"
    /\ position = 0

\* C11: every entry that verify_accuracy has marked verified carries as
\* target_date the earliest trading day strictly after its logged date and as
\* actual that day's close, however old the entry is; an entry with no
\* trading day after its logged date is unverified with actual = null.
LaterTradingDays(e) == {d \in DOMAIN Market : d > e.date /\ d <= today(now)}
NextTradingDay(e) == CHOOSE d \in LaterTradingDays(e) : \A x \in LaterTradingDays(e) : d <= x
C11_VerifiedAgainstNextTradingDay ==
    \A s \in DOMAIN history : \A i \in 1..Len(history[s]) :
        LET e == history[s][i]
        IN  /\ e.verified => /\ LaterTradingDays(e) # {}
                             /\ e.target_date = NextTradingDay(e)
                             /\ e.actual = Market[NextTradingDay(e)]
            /\ LaterTradingDays(e) = {} => (~e.verified /\ e.actual = None)

\* C12: the persisted log is append/update-only: no log_prediction or
\* verify_accuracy call, for any symbol, removes a symbol or an entry or
\* changes the date or the predicted value of an existing entry.
C12_AppendUpdateOnly ==
    [][ \A s \in DOMAIN history :
            /\ s \in DOMAIN history'
            /\ Len(history'[s]) >= Len(history[s])
            /\ \A i \in 1..Len(history[s]) :
                  /\ history'[s][i].date = history[s][i].date
                  /\ history'[s][i].predicted = history[s][i].predicted ]_vars

\* two symbols logged; one has a verified entry followed by a later one
C12_Witness ==
    /\ Cardinality(DOMAIN history) = 2
    /\ \E s \in DOMAIN history :
          /\ Len(history[s]) >= 2
          /\ history[s][1].verified
          /\ history[s][1].actual = Market[history[s][1].target_date]
          /\ ~history[s][Len(history[s])].verified

\* C13: predict_stock_price raises to its caller only when the market-data
\* fetch or the forecaster fails; when any other stage fails (cleaning, regime
\* detection, feature selection, sentiment, technical summary, accuracy
\* tracking, market context) the request still returns a result.
Surfaced == {"data", "forecaster"}
C13_OnlyFetchAndForecastSurface ==
    \A c \in invoked :
        (c.failed /\ c.stage \notin Surfaced) => resp.status = 200

\* C15: a failure of the technical-summary call or of the sentiment call
\* never propagates: the request completes, the result carries the empty
\* structure {indicators: {}, summary: {}}, respectively score 0, label
\* Neutral and news_count 0, and scan_stock makes a regular row of it.
C15_ExternalFailureRecovered ==
    \A c \in invoked :
        /\ (c.failed /\ c.stage = "technical")
              => /\ resp.status = 200
                 /\ resp.body.tv_technical_indicators = [indicators |-> <<>>, summary |-> <<>>]
                 /\ ~scan_row(resp.body).error
                 /\ scan_row(resp.body).TV_Rec = "N/A"
        /\ (c.failed /\ c.stage = "sentiment")
              => /\ resp.status = 200
                 /\ resp.body.sentiment.score = 0
                 /\ resp.body.sentiment.label = "Neutral"
                 /\ resp.body.sentiment.news_count = 0
                 /\ ~scan_row(resp.body).error

\* the technical-summary call of the last request failed and the request was
\* answered; an earlier request met a failing sentiment call
C15_Witness ==
    /\ resp.status = 200
    /\ [stage |-> "technical", failed |-> TRUE] \in invoked
    /\ resp.body.tv_technical_indicators.summary = <<>>
    /\ resp.body.sentiment = LiveSentiment
    /\ \E s \in DOMAIN PREDICTION_CACHE :
          /\ PREDICTION_CACHE[s].data.sentiment.label = "Neutral"
          /\ PREDICTION_CACHE[s].data.tv_technical_indicators = LiveAnalysis

\* C14: if regime detection raises, the decision is still made: market_phase
\* is "Unknown" and the action is the one the bull-mode rule gives for the
\* technical flags of the latest row.
BullRule(up, dip, rip, safe) ==
    IF up /\ dip /\ safe THEN "Strong Buy"
    ELSE IF up /\ dip THEN "Wait"
    ELSE IF rip THEN "Sell"
    ELSE IF up THEN "Hold"
    ELSE "Avoid"
BullRuleOn(row) == BullRule(is_uptrend(row), is_dip(row), is_rip(row), is_safe_vol(row))
C14_FailedRegimeIsUnknown ==
    (dpc = "done" /\ ~gmm.ok)
        => /\ decision.market_phase = LabelUnknown
           /\ decision.action = BullRuleOn(last_row)

\* detection failed on a safe dip in an uptrend: Strong Buy under Unknown
C14_Witness ==
    /\ dpc = "done" /\ ~gmm.ok
    /\ decision.market_phase = LabelUnknown
    /\ decision.action = "Strong Buy"

\* C16: under the bull label the action is chosen in this priority order:
\* Strong Buy if isUptrend, isDip and isSafeVolume; Wait if isUptrend and
\* isDip without isSafeVolume; otherwise Sell if isRip; otherwise Hold if
\* isUptrend; otherwise Avoid.
C16_BullModePriority ==
    (dpc = "done" /\ decision.market_phase = labels[3])
        => decision.action = BullRuleOn(last_row)

\* a dip in an uptrend on unsafe volume under the bull label: Wait
C16_Witness ==
    /\ dpc = "done" /\ gmm.ok
    /\ decision.market_phase = LabelBullish
    /\ is_uptrend(last_row) /\ is_dip(last_row) /\ ~is_safe_vol(last_row)
    /\ decision.action = "Wait"

\* C17: under the weak-bear / choppy label the action is Buy exactly when
\* isDeepDip and isSafeVolume both hold and Wait in every other case.
C17_ChoppyModeBuysDeepDipOnly ==
    (dpc = "done" /\ decision.market_phase = labels[2])
        => decision.action = IF is_deep_dip(last_row) /\ is_safe_vol(last_row)
                             THEN "Buy" ELSE "Wait"

\* a shallow dip in an uptrend under the choppy label: Wait, not a buy
C17_Witness ==
    /\ dpc = "done"
    /\ decision.market_phase = LabelNeutral
    /\ is_uptrend(last_row) /\ is_dip(last_row) /\ ~is_deep_dip(last_row)
    /\ is_safe_vol(last_row)
    /\ decision.action = "Wait"

\* C18: the decision is a function of the regime label and the five flags:
\* every row with the flags of the latest row gets, under the same label, the
\* same action and the same rationale, and the action is one of Strong Buy,
\* Buy, Hold, Wait, Sell, Avoid.
Flags(row) ==
    <<is_uptrend(row), is_dip(row), is_deep_dip(row), is_rip(row), is_safe_vol(row)>>
Actions == {"Strong Buy", "Buy", "Hold", "Wait", "Sell", "Avoid"}
C18_DecisionDeterminedByFlags ==
    dpc = "done"
        => /\ decision.action \in Actions
           /\ LET flags == Flags(last_row)
                  same == {row \in Rows : Flags(row) = flags}
                  made == [action |-> decision.action, score_desc |-> decision.score_desc]
              IN  \A row \in same : RegimeGuardrails(decision.market_phase, row) = made

\* a Hold decided on RSI 60; the rows with RSI 45 carry the same flags
C18_Witness ==
    /\ dpc = "done"
    /\ decision.action = "Hold"
    /\ last_row.RSI = 60
    /\ \E row \in Rows : row.RSI = 45 /\ Flags(row) = Flags(last_row)

\* C19: clean_data_robust is idempotent: applied to its own output it changes
\* no close.
C19_FilterIdempotent ==
    [][ npasses >= 1 => cleaned' = cleaned ]_vars

\* C20: on a gap-free column with one injected spike the filter replaces the
\* close of the spiked bar with a value inside [median - k MAD, median + k MAD]
\* of its window and leaves the close of every other bar as it was.
C20_OnlySpikeReplaced ==
    (npasses = 1 /\ spike_at # 0)
        => /\ Len(cleaned) = Len(fetched)
           /\ cleaned[spike_at] # fetched[spike_at]
           /\ cleaned[spike_at] >= lower_bound(fetched)[spike_at]
           /\ cleaned[spike_at] <= upper_bound(fetched)[spike_at]
           /\ \A i \in 1..Len(fetched) : i # spike_at => cleaned[i] = fetched[i]

\* C21: no derived feature looks ahead: two columns that agree on every bar
\* up to and including bar t get the same value at t for every derived field,
\* rows of the warm-up window and rows between two strided Hurst computations
\* included.
C21_NoLookahead ==
    fpc = "done" => features_later[upto] = features[upto]

\* C30: add_hurst_feature gives exactly 0.5 to every bar at index < window,
\* so a column of at most `window` bars has Hurst 0.5 on all its bars, and
\* calculate_hurst returns 0.5 whenever fewer than 3 of the lags
\* {2, 5, 10, 20, 30} are shorter than the series.
C30_HurstDefault ==
    /\ fpc = "done"
          => \A i \in 1..Len(bars) : i <= HurstWindow => features[i].Hurst = Half
    /\ (hurst # <<>> /\ Cardinality({l \in check_lags : l < hurst.length}) < 3)
          => hurst.value = Half

\* a column longer than the window whose later rows carry a fitted Hurst,
\* and a direct call on a series that only two lags fit
C30_Witness ==
    /\ fpc = "done"
    /\ Len(bars) > HurstWindow
    /\ features[HurstWindow].Hurst = Half
    /\ features[Len(bars)].Hurst.kind = "slope"
    /\ hurst # <<>>
    /\ hurst.length = 10
    /\ hurst.value = Half

\* C22: in the label map of a successful detection, a cluster with a lower
\* mean Return_1d than another gets an earlier label in [Bearish/Volatile,
\* Neutral/Choppy, Bullish/Trending], two clusters never share a label, and
\* a cluster labelled Bearish/Volatile is one of lowest mean (and there is one).
LabelIndex(l) == CHOOSE i \in DOMAIN labels : labels[i] = l
C22_LabelMapOrderPreserving ==
    (dpc = "done" /\ gmm.ok) =>
        LET means == gmm.means
            map == label_map(means)
        IN  /\ \A a \in DOMAIN means : map[a] \in {labels[i] : i \in DOMAIN labels}
            /\ \A a, b \in DOMAIN means :
                  /\ means[a] < means[b] => LabelIndex(map[a]) < LabelIndex(map[b])
                  /\ a # b => map[a] # map[b]
            /\ \E a \in DOMAIN means : map[a] = LabelBearish
            /\ \A a \in DOMAIN means :
                  map[a] = LabelBearish => \A b \in DOMAIN means : means[a] <= means[b]
            /\ decision.market_phase = map[gmm.last]

\* three populated clusters whose means descend with the cluster id; the last
\* row lies in the cluster of highest mean, cluster 0
C22_Witness ==
    /\ dpc = "done" /\ gmm.ok /\ DOMAIN gmm.means = Clusters
    /\ gmm.means[0] > gmm.means[1] /\ gmm.means[1] > gmm.means[2]
    /\ gmm.last = 0 /\ decision.market_phase = LabelBullish
    /\ label_map(gmm.means)[2] = LabelBearish

\* C23: on every bar of Backtester.run the stop-loss condition is decided
\* first: a bar that begins with a position and closes at or below the stop
\* level is sold with reason SL whether or not the take-profit condition
\* holds too, reason TP is recorded only when the stop-loss condition is
\* false, and a bar records at most one SELL and at most one protective exit.
ProtectiveReasons == {"SL", "TP"}
LedgerExits == {i \in 1..Len(trades) : trades[i].Type = "SELL"}
LedgerWinningExits == {i \in LedgerExits : trades[i].Price > trades[i - 1].Price}
FunctionExits == ntrades
FunctionWinningExits ==
    wins + (IF in_position /\ LastClose > entry_price THEN 1 ELSE 0)
RateOf(won, all) == IF all > 0 THEN Rat(won * 100, all) ELSE Whole(0)
C24_WinRateOverAllExits ==
    spc = "done" =>
        IF sim = "Backtester"
        THEN report_win_rate
                = RateOf(Cardinality(LedgerWinningExits), Cardinality(LedgerExits))
        ELSE win_rate = RateOf(FunctionWinningExits, FunctionExits)

\* C25: for every equity curve of a finished Backtester run on positive
\* closes, every equity point is between 0 and the running peak, the peak is
\* positive, and the reported maximum drawdown is between -100 % and 0.
C25_DrawdownBounded ==
    (sim = "Backtester" /\ spc = "done") =>
        /\ equity_curve # <<>>
        /\ \A i \in 1..Len(equity_curve) :
              /\ 0 <= equity_curve[i]
              /\ equity_curve[i] <= cummax(equity_curve, i)
              /\ 0 < cummax(equity_curve, i)
              /\ RLe(drawdown(equity_curve, i), Whole(0))
        /\ RLe(max_drawdown, Whole(0))
        /\ RLe(Whole(0 - 100), max_drawdown)

\* a run whose equity rose with the close and then fell back below its peak
C25_Witness ==
    /\ sim = "Backtester" /\ spc = "done"
    /\ Len(equity_curve) = 4
    /\ equity_curve[3] > equity_curve[2]
    /\ equity_curve[4] < equity_curve[3]
    /\ max_drawdown # Whole(0)
    /\ max_drawdown = RTimes(drawdown(equity_curve, 4), 100)

\* C26: when a simulation has ended on a strictly rising close series on
\* which exactly one buy was executed and nothing was sold before the end,
\* the final equity is the initial capital times last close / entry close.
StrictlyRising == \A i \in 1..(Len(df) - 1) : df[i] < df[i + 1]
C26_BuyAndHoldEquity ==
    (spc = "done" /\ StrictlyRising) =>
        IF sim = "Backtester"
        THEN (/\ Len(trades) = 2
              /\ trades[1].Type = "BUY"
              /\ trades[2].Reason = "End")
                => Whole(balance) = Rat(initial_capital * LastClose, trades[1].Price)
        ELSE (ntrades = 1 /\ in_position)
                => final_val = Rat(CAPITAL * LastClose, entry_price)

\* C27 (as stated): the dict verify_accuracy returns has mae_percent = the
\* mean over the verified entries of |predicted - actual| / actual x 100,
\* samples = their number and accuracy = max(0, 100 - mean), within [0, 100];
\* with no verified entry it is Pending with 0 samples.
VerifiedOf(s) ==
    IF s \in DOMAIN history
    THEN SelectSeq(history[s], LAMBDA e : e.verified /\ e.actual # None)
    ELSE <<>>
MeanError(s) ==
    LET v == VerifiedOf(s)
    IN  ROver(RSum([i \in 1..Len(v) |->
                      Rat(Abs(v[i].predicted - v[i].actual) * 100, v[i].actual)]), Len(v))
RMinus(a, b) == RPlus(a, [n |-> 0 - b.n, d |-> b.d])
FlooredAccuracy(s) ==
    IF RLe(MeanError(s), Whole(100)) THEN RMinus(Whole(100), MeanError(s)) ELSE Whole(0)
DigitValue(c) == CHOOSE i \in 0..9 : DigitChars[i + 1] = c
RECURSIVE ParseNat(_)
ParseNat(str) ==
    IF str = <<>> THEN 0
    ELSE 10 * ParseNat(SubSeq(str, 1, Len(str) - 1)) + DigitValue(str[Len(str)])
\* the tenths written in "<digits>.<digit>%"
ParseTenths(str) ==
    10 * ParseNat(SubSeq(str, 1, Len(str) - 3)) + DigitValue(str[Len(str) - 1])
WithinHalfUnit(x, y, scale) ==
    /\ RLe(RMinus(x, y), Rat(1, 2 * scale))
    /\ RLe(RMinus(y, x), Rat(1, 2 * scale))
RequestedSymbol == upper(strip(request'))
C28_StaleEntryIsReplaced ==
    [][ now' = now =>
          /\ (resp'.status = 200 /\ invoked' = {})
                => /\ RequestedSymbol \in DOMAIN PREDICTION_CACHE
                   /\ now - PREDICTION_CACHE[RequestedSymbol].time < CACHE_DURATION_HOURS
          /\ \A s \in DOMAIN PREDICTION_CACHE :
                (/\ RequestedSymbol = s
                 /\ now - PREDICTION_CACHE[s].time >= CACHE_DURATION_HOURS)
                    => /\ [stage |-> "data", failed |-> FALSE] \in invoked'
                          \/ [stage |-> "data", failed |-> TRUE] \in invoked'
                       /\ resp'.status = 200
                            => /\ {c.stage : c \in invoked'} = {Stages[i] : i \in DOMAIN Stages}
                               /\ resp'.body # PREDICTION_CACHE[s].data
                               /\ resp'.body.id = allocated + 1
                               /\ PREDICTION_CACHE'[s] = [time |-> now, data |-> resp'.body]
                               /\ DOMAIN PREDICTION_CACHE' = DOMAIN PREDICTION_CACHE
          /\ \A k \in DOMAIN PREDICTION_CACHE' : PREDICTION_CACHE'[k].data.symbol = k ]_vars

\* the symbol's entry, stored at the first hour, was replaced exactly
\* CACHE_DURATION_HOURS later by the second result object
C28_Witness ==
    /\ resp.status = 200 /\ invoked # {}
    /\ DOMAIN PREDICTION_CACHE = {resp.body.symbol}
    /\ allocated = 2 /\ resp.body.id = 2
    /\ PREDICTION_CACHE[resp.body.symbol] = [time |-> now, data |-> resp.body]
    /\ now = StartHour + CACHE_DURATION_HOURS

\* C29: under every interleaving of concurrent predict_stock_price calls,
\* each entry of the cache, each entry a thread has bound and each result
\* served from the cache is whole: the (time, data) pair that one run of the
\* pipeline for that very symbol built and stored, never the time of one
\* run with the data of another, and never the result of another symbol.
StoredBy(s) == {built[t] : t \in {u \in Threads : tsym[u] = s /\ built[u] # <<>>}}
C29_NoTornCacheEntry ==
    tpc # <<>> =>
        /\ \A s \in DOMAIN PREDICTION_CACHE :
              /\ PREDICTION_CACHE[s] \in StoredBy(s)
              /\ PREDICTION_CACHE[s].data.symbol = s
        /\ \A t \in Threads :
              /\ entry[t] # <<>> =>
                    /\ entry[t] \in StoredBy(tsym[t])
                    /\ entry[t].data.symbol = tsym[t]
              /\ (tpc[t] = "returned" /\ built[t] = <<>>) =>
                    /\ entry[t] # <<>>
                    /\ returned[t] = entry[t].data
                    /\ returned[t].symbol = tsym[t]

\* two threads missed the cache together and stored their runs for the same
\* symbol at different hours; a third was served the later entry
C29_Witness ==
    /\ tpc # <<>>
    /\ \E t, u, v \in Threads :
          /\ tsym[t] = tsym[u] /\ tsym[u] = tsym[v]
          /\ built[t] # <<>> /\ built[u] # <<>> /\ built[t].time < built[u].time
          /\ entry[t] = <<>> /\ entry[u] = <<>>
          /\ built[v] = <<>> /\ tpc[v] = "returned"
          /\ entry[v] = built[u] /\ returned[v] = built[u].data
          /\ PREDICTION_CACHE[tsym[v]] = built[u]

\* C31: on every bar of every simulator, a buy leaves no cash (all of it
\* became shares at the bar's close) and a sell of any kind leaves no shares
\* (the whole position became cash at the bar's close).
C31_FullCashBuyFullPositionSell ==
    [][ BarStep =>
          /\ executed' = <<"BUY">> =>
                IF sim = "Backtester"
                THEN balance' = 0 /\ position' * ThisClose = balance
                ELSE cash' = Whole(0) /\ RTimes(shares', ThisClose) = cash
          /\ (executed' # <<>> /\ executed' # <<"BUY">>) =>
                IF sim = "Backtester"
                THEN position' = 0 /\ balance' = balance + (position * ThisClose)
                ELSE shares' = Whole(0) /\ cash' = RTimes(shares, ThisClose) ]_vars

\* C32 (as stated): a call of the filter returns the first window - 1 bars
\* as it was given them, returns no more rows than it was given, and leaves
\* the caller's column as it was.
FirstPass == npasses = 0 /\ npasses' = 1
C32_WarmUpBarsUntouched ==
    [][ FirstPass =>
          /\ fetched' = fetched
          /\ Len(cleaned') <= Len(fetched)
          /\ \A i \in 1..Len(fetched) :
                i < window => (i <= Len(cleaned') /\ cleaned'[i] = fetched[i]) ]_vars

\* C32 (amended): the rows returned are the rows whose close is a number
\* after the forward and backward fill (an infinite close counts as none),
\* in their input order and never more than were given; on the first
\* window - 1 of them the outlier filter changes nothing: the close returned
\* is the close after gap filling, which is the input close wherever that
\* was a number; the caller's column is left as it was.
Filled == replace_inf(bfill(ffill(fetched)))
\* the input rows that are returned, in input order
KeptRows == SelectSeq([i \in 1..Len(fetched) |-> i], LAMBDA i : Filled[i] # NaN)
C32_WarmUpRowsOnlyGapFilled ==
    [][ FirstPass =>
          LET filled == Filled
              kept == SelectSeq([i \in 1..Len(fetched) |-> i], LAMBDA i : filled[i] # NaN)
          IN  /\ fetched' = fetched
              /\ Len(cleaned') = Len(kept)
              /\ Len(cleaned') <= Len(fetched)
              /\ \A j \in 1..Len(cleaned') :
                    /\ cleaned'[j] \notin {NaN, Inf}
                    /\ j < window =>
                          /\ cleaned'[j] = filled[kept[j]]
                          /\ fetched[kept[j]] \notin {NaN, Inf}
                                => cleaned'[j] = fetched[kept[j]] ]_vars

\* a column whose first bar is infinite and whose third is a gap: the first
\* row is dropped, the gap is filled from the bar before it, and the filter
\* went on to replace a later close
C32_Witness ==
    /\ npasses = 1
    /\ Len(fetched) = CleanLen /\ fetched[1] = Inf /\ fetched[3] = NaN
    /\ fetched[2] \notin {NaN, Inf}
    /\ Len(cleaned) = CleanLen - 1
    /\ cleaned[1] = fetched[2] /\ cleaned[2] = fetched[2]
    /\ \E j \in window..Len(cleaned) : cleaned[j] # Filled[KeptRows[j]]

\* C33: after a successful detection, whatever clusters hold rows (some of
\* the three components may hold none), a cluster of highest mean Return_1d
\* is labelled Bullish/Trending, only a cluster of highest mean is, and every
\* row's cluster has one of the three labels.
C33_HighestMeanIsBullish ==
    (dpc = "done" /\ gmm.ok) =>
        LET means == gmm.means
            map == label_map(means)
            highest == {a \in DOMAIN means : \A b \in DOMAIN means : means[b] <= means[a]}
        IN  /\ \A a \in DOMAIN means : map[a] \in {labels[i] : i \in DOMAIN labels}
            /\ \E a \in highest : map[a] = LabelBullish
            /\ \A a \in DOMAIN means : map[a] = LabelBullish => a \in highest

\* C34: the volume filter passes whenever the latest row has no positive
\* 20-day average volume (NaN or 0) and otherwise passes exactly when the
\* volume is below 2.5 times that average; the decision shows it: in caution
\* mode a deep dip is a Buy exactly when the filter passes, and in bull mode a
\* dip in an uptrend is a Strong Buy exactly when the filter passes.
HasPositiveAverage == last_row.Volume_SMA_20 # NaN /\ last_row.Volume_SMA_20 > 0
VolumeBelowLimit ==
    /\ last_row.Volume # NaN
    /\ (10 * last_row.Volume) < (25 * last_row.Volume_SMA_20)
SafeVolume == HasPositiveAverage => VolumeBelowLimit
CautionMode ==
    /\ ~Contains(StrStrongBear, decision.market_phase)
    /\ Contains(StrWeakBear, decision.market_phase)
          \/ Contains(StrChoppy, decision.market_phase)
BullMode ==
    /\ ~Contains(StrStrongBear, decision.market_phase)
    /\ ~Contains(StrWeakBear, decision.market_phase)
    /\ ~Contains(StrChoppy, decision.market_phase)
C34_SafeVolumeDefault ==
    dpc = "done" =>
        /\ (CautionMode /\ is_deep_dip(last_row))
              => (decision.action = "Buy" <=> SafeVolume)
        /\ (BullMode /\ is_uptrend(last_row) /\ is_dip(last_row))
              => (decision.action = "Strong Buy" <=> SafeVolume)

\* a dip in an uptrend with no average volume yet is bought
C34_Witness ==
    /\ dpc = "done" /\ BullMode
    /\ is_uptrend(last_row) /\ is_dip(last_row)
    /\ last_row.Volume_SMA_20 = NaN
    /\ decision.action = "Strong Buy"

\* C35: in the parallel batches the set of collected results does not depend
\* on the order in which the workers complete: once the batch is over the
\* collected rows are those of the symbols whose task returned a row (every
\* symbol in the screener), whatever the order of completion was.
ReturnedRow(sym) == TaskOutcome(runner, data[sym]) \in {"row", "error_row"}
C35_ResultsOrderIndependent ==
    (runner \in {"screener", "backtest_parallel"} /\ BatchOver)
        => /\ batch_results = {sym \in BatchSymbols : ReturnedRow(sym)}
           /\ runner = "screener" => batch_results = BatchSymbols

(***************************************************************************)
(* The action label and the screener's sort key.  The label is the text    *)
(* "<action> (<score_desc>)"; get_priority ranks a label by substring      *)
(* tests, tried in order.                                                  *)
(***************************************************************************)
\* the characters of the words of service.py 301-333
TextOf(word) ==
    CASE word = "Strong Buy" ->
            <<"S", "t", "r", "o", "n", "g", " ", "B", "u", "y">>
      [] word = "Buy" ->
            <<"B", "u", "y">>
      [] word = "Sell" ->
            <<"S", "e", "l", "l">>
      [] word = "Wait" ->
            <<"W", "a", "i", "t">>
      [] word = "Hold" ->
            <<"H", "o", "l", "d">>
      [] word = "Avoid" ->
            <<"A", "v", "o", "i", "d">>
      [] word = "Bear Regime (No Buys)" ->
            <<"B", "e", "a", "r", " ", "R", "e", "g", "i", "m", "e", " ", "(", "N", "o", " ", "B", "u", "y", "s", ")">>
      [] word = "Deep Value in Chop" ->
            <<"D", "e", "e", "p", " ", "V", "a", "l", "u", "e", " ", "i", "n", " ", "C", "h", "o", "p">>
      [] word = "Choppy Market (Wait for 35 RSI)" ->
            <<"C", "h", "o", "p", "p", "y", " ", "M", "a", "r", "k", "e", "t", " ", "(", "W", "a", "i", "t", " ", "f", "o", "r", " ", "3", "5", " ", "R", "S", "I", ")">>
      [] word = "Bull Trend + Dip" ->
            <<"B", "u", "l", "l", " ", "T", "r", "e", "n", "d", " ", "+", " ", "D", "i", "p">>
      [] word = "Dip but High Vol" ->
            <<"D", "i", "p", " ", "b", "u", "t", " ", "H", "i", "g", "h", " ", "V", "o", "l">>
      [] word = "Overbought" ->
            <<"O", "v", "e", "r", "b", "o", "u", "g", "h", "t">>
      [] word = "Uptrend (Wait for Dip)" ->
            <<"U", "p", "t", "r", "e", "n", "d", " ", "(", "W", "a", "i", "t", " ", "f", "o", "r", " ", "D", "i", "p", ")">>
      [] word = "Downtrend" ->
            <<"D", "o", "w", "n", "t", "r", "e", "n", "d">>

\* service.py 335: action_label = f"{action} ({score_desc})"
action_label(d) == TextOf(d.action) \o <<" ", "(">> \o TextOf(d.score_desc) \o <<")">>

\* screener.py 98-103
get_priority(act) ==
    IF Contains(TextOf("Strong Buy"), act) THEN 0
    ELSE IF Contains(TextOf("Sell"), act) THEN 1
    ELSE IF Contains(TextOf("Wait"), act) THEN 2
    ELSE IF Contains(TextOf("Avoid"), act) THEN 3
    ELSE 4

\* C36: for every action label the decision can produce, get_priority returns
\* the documented rank of the label's own action (0 Strong Buy, 1 Sell,
\* 2 Wait, 3 Avoid, 4 Hold), so that a Hold row sorts after every Wait and
\* Avoid row.
DocumentedRank(action) ==
    CASE action = "Strong Buy" -> 0
      [] action = "Sell" -> 1
      [] action = "Wait" -> 2
      [] action = "Avoid" -> 3
      [] action = "Hold" -> 4
C36_PriorityOfOwnAction ==
    (dpc = "done" /\ decision.action # "Buy")
        => get_priority(action_label(decision)) = DocumentedRank(decision.action)

\* C37: a request on which predict_stock_price raises (the provider returns
\* no bars, the forecaster fails) leaves PREDICTION_CACHE exactly as it was:
\* no entry is created or refreshed, and an expired entry of the symbol is
\* neither served nor removed.
PipelineRaised ==
    /\ now' = now /\ RequestedSymbol # <<>>
    /\ resp'.status # 200
    /\ \E c \in invoked' : c.failed
C37_RaiseLeavesCacheAlone ==
    [][ PipelineRaised =>
          /\ PREDICTION_CACHE' = PREDICTION_CACHE
          /\ resp'.body = NoResult ]_vars

\* a request for a symbol whose entry had expired raised, and the expired
\* entry is still in the cache
C37_Witness ==
    /\ resp.status \in {404, 500} /\ \E c \in invoked : c.failed
    /\ upper(strip(request)) \in DOMAIN PREDICTION_CACHE
    /\ now - PREDICTION_CACHE[upper(strip(request))].time >= CACHE_DURATION_HOURS

\* C38: verification is final: an entry of the prediction log that is
\* verified keeps its actual, target_date and verified fields through every
\* later write of the log by log_prediction or verify_accuracy.
KeepsVerified(e, file) ==
    \E j \in 1..Len(file) :
        /\ file[j].date = e.date
        /\ file[j].verified
        /\ file[j].actual = e.actual
        /\ file[j].target_date = e.target_date
C38_VerificationFinal ==
    [][ \A s \in DOMAIN history : \A i \in 1..Len(history[s]) :
            history[s][i].verified
                => /\ s \in DOMAIN history'
                   /\ KeepsVerified(history[s][i], history'[s]) ]_vars

\* C39: in Backtester.run the balance is never negative after a bar, and a
\* buy or a sell executed at a close leaves balance + position * close, taken
\* at that close, equal to what it was just before the trade.
C39_TradingConservesValue ==
    [][ sim = "Backtester" =>
          /\ balance' >= 0
          /\ (BarStep /\ executed' # <<>>)
                => balance' + (position' * ThisClose) = balance + (position * ThisClose)
          /\ (EndStep /\ executed' = <<"End">>)
                => balance' + (position' * LastClose) = balance + (position * LastClose) ]_vars

\* a buy that left cash over, then a stop-loss sale of the whole position:
\* the balance is the cash left over plus the proceeds
C39_Witness ==
    /\ sim = "Backtester" /\ executed = <<"SL">>
    /\ Len(trades) = 2 /\ trades[1].Balance > 0
    /\ position = 0
    /\ balance = trades[1].Balance
                   + (((initial_capital - trades[1].Balance) \div trades[1].Price)
                        * trades[2].Price)
    /\ balance < initial_capital

====
